---- MODULE Spec2Model ----
(***************************************************************************)
(* A model of python-devtools: the Bridge Client (_cli.py,                 *)
(* _DevToolsClient) and the Inspection Server (_server.py, _Server).       *)
(*                                                                         *)
(* Two specifications share the module.  SpecClient runs the threads of    *)
(* one _DevToolsClient against an environment that plays the network and   *)
(* the server.  SpecServer runs the accept loop and the connection         *)
(* handlers of one _Server against peers that write bytes.                 *)
(*                                                                         *)
(* Bytes are modelled as blocks: a buffer is a sequence of blocks and its  *)
(* length is counted in blocks.  The buffer caps and the recv sizes are    *)
(* therefore scaled; what is kept is that a recv returns fewer blocks than *)
(* the cap holds.                                                          *)
(***************************************************************************)
EXTENDS Integers, Sequences, FiniteSets, TLC

VARIABLES
    \* ---- _DevToolsClient fields (src/python_devtools/_cli.py:55-63)
    _sock,          \* "None" or "open"
    _id,            \* the request id counter
    _buf,           \* receive buffer, a sequence of blocks
    _last_fail,     \* time of the last connection failure, 0 when none
    _lock,          \* "free" or the thread that holds the lock
    \* ---- the threads calling request()
    pc,             \* position of each thread inside request()
    msg,            \* the request line a thread built (id, method)
    try,            \* 1 in the first exchange, 2 in the retry
    outcome,        \* what request() returned or raised
    nsend,          \* sendall calls made by the current request()
    nconn,          \* _connect_once calls made by the current request()
    nreconn,        \* of those, the ones made by the retry path
    nrecv,          \* recv calls made by the current request()
    ioerr,          \* I/O errors met by the current request()
    sent,           \* the request lines handed to sendall, in order
    \* ---- the environment of the client
    now,            \* time.time(), in seconds
    serverUp,       \* a server listens on (host, port)
    connAlive,      \* the peer end of the client's connection is alive
    wire,           \* blocks the server end has received and not yet handled
    pipe,           \* blocks the server end has written and the client not read
    \* ---- _Server fields and its connections (src/python_devtools/_server.py)
    _readonly,
    _running,
    _namespaces,
    srv_sock,       \* the listening socket: "None" or "listening"
    n_clients,
    n_commands,
    accept_pc,      \* position of the accept loop thread
    shutdown_pc,    \* position of the caller of shutdown()
    conn,           \* per connection: handler position, peer, stream, buf, responses
    lines_sent,     \* request lines the peers have written so far
    \* ---- one call of _Server._dispatch on its own
    d_in,           \* the inputs: request line and namespace
    d_out,          \* what _dispatch did with them, read-only mode on and off
    \* ---- _AppRouter (src/python_devtools/_cli.py:156-244) and the registry
    registry,       \* the entries list_registered_apps() finds
    last_started,   \* started_at of the newest entry ever registered
    live,           \* the ports a server listens on and answers ping
    _clients,       \* _AppRouter._clients: per port, a client object or 0 (None)
    _direct_client, \* the client object of direct mode, 0 (None) without it
    objs,           \* the _DevToolsClient objects the router has created
    rt,             \* per thread: position inside the router call it makes
    \* ---- DevTools (src/python_devtools/_core.py) and the server it starts
    dicts,          \* the dict objects of the app, by identity
    dt,             \* the DevTools object: _namespaces, _invoke_fn, _server
    app_server,     \* the _Server that start() built: _namespaces, _invoke_fn, _warned_inline
    n_warnings,     \* inline-fallback warnings logged so far
    h,              \* per handler thread: position, request, response
    \* ---- the server behind the client's connection
    executed,       \* per request id: how often the server has executed its line
    \* ---- the life cycle of the server of one DevTools object
    dt_server,      \* DevTools._server: the _Server held, 0 (None) without one
    servers,        \* the _Server objects built so far: _port, _readonly, _running, _sock, ...
    taken,          \* the ports other processes listen on
    called          \* the last start() or stop(): what it was given and how it ended

cvars == <<_sock, _id, _buf, _last_fail, _lock>>
tvars == <<pc, msg, try, outcome, nsend, nconn, nreconn, nrecv, ioerr, sent>>
evars == <<now, serverUp, connAlive, wire, pipe>>
svars == <<_readonly, _running, _namespaces, srv_sock, n_clients, n_commands,
           accept_pc, shutdown_pc, conn, lines_sent>>
dvars == <<d_in, d_out>>
rvars == <<registry, last_started, live, _clients, _direct_client, objs, rt>>
avars == <<dicts, dt, app_server, n_warnings, h>>
xvars == <<executed>>
lvars == <<dt_server, servers, taken, called>>
vars  == <<cvars, tvars, evars, svars, dvars, rvars, avars, xvars, lvars>>

\* no start() or stop() in this specification
LifeIdle ==
    /\ dt_server = 0
    /\ servers = <<>>
    /\ taken = {}
    /\ called = <<>>

\* no server behind a client in this specification
ExecIdle == executed = <<>>

\* no DevTools object in this specification
AppIdle ==
    /\ dicts = <<>>
    /\ dt = <<>>
    /\ app_server = <<>>
    /\ n_warnings = 0
    /\ h = <<>>

\* no router in this specification
RouterIdle ==
    /\ registry = {}
    /\ last_started = 0
    /\ live = {}
    /\ _clients = <<>>
    /\ _direct_client = 0
    /\ objs = <<>>
    /\ rt = <<>>

(***************************************************************************)
(* Bounds of the model.                                                    *)
(***************************************************************************)
MaxLines == 2       \* request lines the peers of the server write in one run
srv_MAX_BUF == 4    \* the server's buffer cap (1 MB), in blocks
srv_RECV == 2       \* the most one server recv returns (8192 bytes), in blocks
MaxTime == 5        \* the clock stops here
MaxId == 3          \* requests that get an id in one run
cli_MAX_BUF == 3    \* the client's buffer cap (10 MB), in blocks
cli_RECV == 2       \* the most one client recv returns (65536 bytes), in blocks

Threads == {"t1", "t2"}

\* _DevToolsClient._COOLDOWN
_COOLDOWN == 3

Min(a, b) == IF a < b THEN a ELSE b

(***************************************************************************)
(* Blocks on the client's connection.  A request line is one block that    *)
(* carries the id and the method, then the newline.  A response line is    *)
(* one or more blocks that each carry the id and "result" or "error",      *)
(* then the newline.                                                       *)
(***************************************************************************)
NewLine == [id |-> 0, kind |-> "nl"]
NoMsg == [id |-> 0, method |-> "none"]
NoOutcome == [kind |-> "none", id |-> 0]

ClientMethods == {"ping", "inspect", "set", "bogus"}

ReqBlock(m) == [id |-> m.id, kind |-> m.method]

HasNewLine(s) == \E i \in 1..Len(s) : s[i] = NewLine

FirstNewLine(s) == CHOOSE i \in 1..Len(s) : s[i] = NewLine /\ \A j \in 1..(i-1) : s[j] # NewLine

\* line, rest = s.split(b'\n', 1)
LineOf(s) == SubSeq(s, 1, FirstNewLine(s) - 1)
RestOf(s) == SubSeq(s, FirstNewLine(s) + 1, Len(s))

Repeat(b, n) == [i \in 1..n |-> b]


(***************************************************************************)
(* The server as the client sees it: it answers each complete line of the  *)
(* connection with one response line that echoes the id                    *)
(* (_server.py:163-170, 182-196).  "bogus" is an unknown method, answered  *)
(* with an error; "inspect" stands for a request whose response is larger  *)
(* than the client's buffer cap.                                           *)
(***************************************************************************)
\* the line is a request whose method the server knows and runs: _call
\* reaches the case of the method
Executes(line) == Len(line) = 1 /\ line[1].kind \in ClientMethods \ {"bogus"}

ResponseTo(line) ==
    IF Len(line) = 1 /\ line[1].kind \in ClientMethods
    THEN LET kind == IF line[1].kind = "bogus" THEN "error" ELSE "result"
             size == IF line[1].kind = "inspect" THEN cli_MAX_BUF + 1 ELSE 1
         IN  Repeat([id |-> line[1].id, kind |-> kind], size) \o <<NewLine>>
    ELSE IF Len(line) = 0 THEN <<>>
    ELSE <<[id |-> 0, kind |-> "error"], NewLine>>

\* json.loads(line) of a response line: the blocks of one response, or not JSON
ValidResponse(line) ==
    /\ Len(line) >= 1
    /\ line[1].kind \in {"result", "error"}
    /\ \A i \in 1..Len(line) : line[i] = line[1]

(***************************************************************************)
(* _DevToolsClient                                                         *)
(***************************************************************************)

\* the cooldown test with the window closed one tick late
InCooldownLate(last, t) == last # 0 /\ (t - last) <= _COOLDOWN

\* _connect: the cooldown test, `self._last_fail and (time.time() - self._last_fail) < self._COOLDOWN`
InCooldown(last, t) == last # 0 /\ (t - last) < _COOLDOWN

\* a handler that retries after every failure, and one that never retries
RetryAlways(n) == TRUE
RetryNever(n) == FALSE

\* request: the first `except self._CONN_ERRORS` retries, the nested one gives up
RetryAllowed(n) == n = 1

\* a request() that does not take the lock
LockIgnored == TRUE

\* request: `with self._lock:` blocks while another thread holds the lock
LockAvailable == _lock = "free"

\* request: json.dumps({'id': self._id, 'method': method, 'params': params}), built once
BuildMsg(i, method) == [id |-> i, method |-> method]

\* request: the message handed to _send_and_recv by the first call and by the retry
MsgToSend(t) == msg[t]

\* the state of a fresh connection
FreshConn ==
    /\ connAlive' = TRUE
    /\ wire' = <<>>
    /\ pipe' = <<>>

\* the connection is gone once the client closes its socket
ClosedConn ==
    /\ connAlive' = FALSE
    /\ wire' = <<>>
    /\ pipe' = <<>>

\* a _connect_once that leaves the failure timestamp as it is
ConnectOnceKeepsFail ==
    /\ _sock' = "open"
    /\ _buf' = <<>>
    /\ UNCHANGED _last_fail
    /\ FreshConn

\* _connect_once, when connect() succeeds
ConnectOnceOk ==
    /\ _sock' = "open"
    /\ _buf' = <<>>
    /\ _last_fail' = 0
    /\ FreshConn

\* 'with self._lock:' entered by a thread that calls request(method)
Acquire(t, m) ==
    /\ pc[t] = "idle"
    /\ LockAvailable
    /\ _id < MaxId
    /\ _lock' = t
    /\ pc' = [pc EXCEPT ![t] = "connect"]
    /\ msg' = [msg EXCEPT ![t] = BuildMsg(0, m)]
    /\ try' = [try EXCEPT ![t] = 1]
    /\ outcome' = [outcome EXCEPT ![t] = NoOutcome]
    /\ nsend' = [nsend EXCEPT ![t] = 0]
    /\ nconn' = [nconn EXCEPT ![t] = 0]
    /\ nreconn' = [nreconn EXCEPT ![t] = 0]
    /\ nrecv' = [nrecv EXCEPT ![t] = 0]
    /\ ioerr' = [ioerr EXCEPT ![t] = 0]
    /\ sent' = [sent EXCEPT ![t] = <<>>]
    /\ UNCHANGED <<_sock, _id, _buf, _last_fail, evars, svars, dvars, rvars, avars, xvars, lvars>>

\* self._id += 1; msg = json.dumps(...)
AssignId(t) ==
    /\ _id' = _id + 1
    /\ msg' = [msg EXCEPT ![t] = BuildMsg(_id + 1, msg[t].method)]
    /\ pc' = [pc EXCEPT ![t] = "send"]

\* self._connect(), then the id assignment when it returns
Connect(t) ==
    /\ pc[t] = "connect"
    /\ IF _sock # "None"
       THEN /\ AssignId(t)
            /\ UNCHANGED <<_sock, _buf, _last_fail, outcome, nconn, evars, rvars, avars, xvars, lvars>>
       ELSE IF InCooldown(_last_fail, now)
       THEN /\ outcome' = [outcome EXCEPT ![t] = [kind |-> "NotReachable", id |-> 0]]
            /\ pc' = [pc EXCEPT ![t] = "ret"]
            /\ UNCHANGED <<_sock, _id, _buf, _last_fail, msg, nconn, evars, rvars, avars, xvars, lvars>>
       ELSE IF serverUp
       THEN /\ ConnectOnceOk
            /\ AssignId(t)
            /\ nconn' = [nconn EXCEPT ![t] = @ + 1]
            /\ UNCHANGED <<outcome, now, serverUp, rvars, avars, xvars, lvars>>
       ELSE \* _connect_once raised: _fail()
            /\ _last_fail' = now
            /\ outcome' = [outcome EXCEPT ![t] = [kind |-> "ConnectionRefused", id |-> 0]]
            /\ pc' = [pc EXCEPT ![t] = "ret"]
            /\ nconn' = [nconn EXCEPT ![t] = @ + 1]
            /\ UNCHANGED <<_sock, _id, _buf, msg, evars, rvars, avars, xvars, lvars>>
    /\ UNCHANGED <<_lock, try, nsend, nreconn, nrecv, ioerr, sent, svars, dvars, rvars, avars, xvars, lvars>>

\* an `except self._CONN_ERRORS` handler of request(): _disconnect() and the
\* retry after the first failure, _fail() and ConnectionError after the second
OnConnError(t) ==
    /\ ioerr' = [ioerr EXCEPT ![t] = @ + 1]
    /\ _sock' = "None"
    /\ _buf' = IF _sock # "None" THEN <<>> ELSE _buf
    /\ ClosedConn
    /\ IF RetryAllowed(try[t])
       THEN /\ pc' = [pc EXCEPT ![t] = "reconnect"]
            /\ UNCHANGED <<_last_fail, outcome, rvars, avars, xvars, lvars>>
       ELSE /\ _last_fail' = now
            /\ outcome' = [outcome EXCEPT ![t] = [kind |-> "ConnectionError", id |-> 0]]
            /\ pc' = [pc EXCEPT ![t] = "ret"]

\* _send_and_recv: sendall starts and writes the request's block
Send(t) ==
    /\ pc[t] = "send"
    /\ nsend' = [nsend EXCEPT ![t] = @ + 1]
    /\ sent' = [sent EXCEPT ![t] = Append(@, MsgToSend(t))]
    /\ \/ /\ wire' = IF connAlive THEN Append(wire, ReqBlock(MsgToSend(t))) ELSE wire
          /\ pc' = [pc EXCEPT ![t] = "sendnl"]
          /\ UNCHANGED <<_sock, _buf, _last_fail, outcome, ioerr, connAlive, pipe, rvars, avars, xvars, lvars>>
       \/ /\ ~connAlive
          /\ OnConnError(t)
    /\ UNCHANGED <<_id, _lock, msg, try, nconn, nreconn, nrecv, now, serverUp, svars, dvars, rvars, avars, xvars, lvars>>

\* _send_and_recv: sendall writes the terminator and returns
SendNL(t) ==
    /\ pc[t] = "sendnl"
    /\ \/ /\ wire' = IF connAlive THEN Append(wire, NewLine) ELSE wire
          /\ pc' = [pc EXCEPT ![t] = "recv"]
          /\ UNCHANGED <<_sock, _buf, _last_fail, outcome, ioerr, connAlive, pipe, rvars, avars, xvars, lvars>>
       \/ /\ ~connAlive
          /\ OnConnError(t)
    /\ UNCHANGED <<_id, _lock, msg, try, nsend, nconn, nreconn, nrecv, sent, now, serverUp, svars, dvars, rvars, avars, xvars, lvars>>

\* _send_and_recv: one turn of `while b'\n' not in self._buf`, and the split,
\* the json.loads and the error test of request() once a line is there
Recv(t) ==
    /\ pc[t] = "recv"
    /\ IF HasNewLine(_buf)
       THEN /\ _buf' = RestOf(_buf)
            /\ outcome' = [outcome EXCEPT ![t] =
                   IF ~ValidResponse(LineOf(_buf)) THEN [kind |-> "ValueError", id |-> 0]
                   ELSE IF LineOf(_buf)[1].kind = "error"
                        THEN [kind |-> "ServerError", id |-> LineOf(_buf)[1].id]
                        ELSE [kind |-> "result", id |-> LineOf(_buf)[1].id]]
            /\ pc' = [pc EXCEPT ![t] = "ret"]
            /\ UNCHANGED <<_sock, _last_fail, nrecv, ioerr, connAlive, wire, pipe, rvars, avars, xvars, lvars>>
       ELSE /\ nrecv' = [nrecv EXCEPT ![t] = @ + 1]
            /\ \/ \E n \in 1..Min(cli_RECV, Len(pipe)) :
                    /\ _buf' = _buf \o SubSeq(pipe, 1, n)
                    /\ pipe' = SubSeq(pipe, n + 1, Len(pipe))
                    /\ IF Len(_buf') > cli_MAX_BUF
                       THEN /\ outcome' = [outcome EXCEPT ![t] = [kind |-> "TooLarge", id |-> 0]]
                            /\ pc' = [pc EXCEPT ![t] = "ret"]
                       ELSE UNCHANGED <<outcome, pc, rvars, avars, xvars, lvars>>
                    /\ UNCHANGED <<_sock, _last_fail, ioerr, connAlive, wire, rvars, avars, xvars, lvars>>
               \/ \* recv returned b'' or raised: reset, closed, or timed out
                  /\ ~connAlive \/ pipe = <<>>
                  /\ OnConnError(t)
    /\ UNCHANGED <<_id, _lock, msg, try, nsend, nconn, nreconn, sent, now, serverUp, svars, dvars, rvars, avars, xvars, lvars>>

\* the retry path of request(): self._connect_once() after _disconnect()
Reconnect(t) ==
    /\ pc[t] = "reconnect"
    /\ nconn' = [nconn EXCEPT ![t] = @ + 1]
    /\ nreconn' = [nreconn EXCEPT ![t] = @ + 1]
    /\ IF serverUp
       THEN /\ ConnectOnceOk
            /\ try' = [try EXCEPT ![t] = 2]
            /\ pc' = [pc EXCEPT ![t] = "send"]
            /\ UNCHANGED <<outcome, ioerr, rvars, avars, xvars, lvars>>
       ELSE \* _connect_once raised inside the retry: _fail(), ConnectionError
            /\ ioerr' = [ioerr EXCEPT ![t] = @ + 1]
            /\ _last_fail' = now
            /\ outcome' = [outcome EXCEPT ![t] = [kind |-> "ConnectionError", id |-> 0]]
            /\ pc' = [pc EXCEPT ![t] = "ret"]
            /\ UNCHANGED <<_sock, _buf, try, connAlive, wire, pipe, rvars, avars, xvars, lvars>>
    /\ UNCHANGED <<_id, _lock, msg, nsend, nrecv, sent, now, serverUp, svars, dvars, rvars, avars, xvars, lvars>>

\* request() returns or raises: the lock is released
Return(t) ==
    /\ pc[t] = "ret"
    /\ _lock' = "free"
    /\ pc' = [pc EXCEPT ![t] = "idle"]
    /\ msg' = [msg EXCEPT ![t] = NoMsg]
    /\ try' = [try EXCEPT ![t] = 1]
    /\ outcome' = [outcome EXCEPT ![t] = NoOutcome]
    /\ nsend' = [nsend EXCEPT ![t] = 0]
    /\ nconn' = [nconn EXCEPT ![t] = 0]
    /\ nreconn' = [nreconn EXCEPT ![t] = 0]
    /\ nrecv' = [nrecv EXCEPT ![t] = 0]
    /\ ioerr' = [ioerr EXCEPT ![t] = 0]
    /\ sent' = [sent EXCEPT ![t] = <<>>]
    /\ UNCHANGED <<_sock, _id, _buf, _last_fail, evars, svars, dvars, rvars, avars, xvars, lvars>>

(***************************************************************************)
(* The environment of the client.                                          *)
(***************************************************************************)
Tick ==
    /\ now < MaxTime
    /\ now' = now + 1
    /\ UNCHANGED <<cvars, tvars, serverUp, connAlive, wire, pipe, svars, dvars, rvars, avars, xvars, lvars>>

ServerStop ==
    /\ serverUp
    /\ serverUp' = FALSE
    /\ connAlive' = FALSE
    /\ UNCHANGED <<cvars, tvars, now, wire, pipe, svars, dvars, rvars, avars, xvars, lvars>>

ServerStart ==
    /\ ~serverUp
    /\ serverUp' = TRUE
    /\ UNCHANGED <<cvars, tvars, now, connAlive, wire, pipe, svars, dvars, rvars, avars, xvars, lvars>>

\* the connection is reset or dropped while the server keeps running
ConnDrop ==
    /\ connAlive
    /\ connAlive' = FALSE
    /\ UNCHANGED <<cvars, tvars, now, serverUp, wire, pipe, svars, dvars, rvars, avars, xvars, lvars>>

\* the server handles the next complete line of the connection
ServerAnswer ==
    /\ connAlive
    /\ HasNewLine(wire)
    /\ wire' = RestOf(wire)
    /\ pipe' = pipe \o ResponseTo(LineOf(wire))
    /\ executed' = IF Executes(LineOf(wire))
                   THEN [executed EXCEPT ![LineOf(wire)[1].id] = @ + 1]
                   ELSE executed
    /\ UNCHANGED <<cvars, tvars, now, serverUp, connAlive, svars, dvars, rvars, avars, lvars>>

ServerIdle ==
    /\ _readonly = FALSE
    /\ _running = FALSE
    /\ _namespaces = <<>>
    /\ srv_sock = "None"
    /\ n_clients = 0
    /\ n_commands = 0
    /\ accept_pc = "off"
    /\ shutdown_pc = "idle"
    /\ conn = <<>>
    /\ lines_sent = 0

DispatchIdle ==
    /\ d_in = <<>>
    /\ d_out = <<>>

InitClient ==
    /\ _sock = "None"
    /\ _id = 0
    /\ _buf = <<>>
    /\ _last_fail = 0
    /\ _lock = "free"
    /\ pc = [t \in Threads |-> "idle"]
    /\ msg = [t \in Threads |-> NoMsg]
    /\ try = [t \in Threads |-> 1]
    /\ outcome = [t \in Threads |-> NoOutcome]
    /\ nsend = [t \in Threads |-> 0]
    /\ nconn = [t \in Threads |-> 0]
    /\ nreconn = [t \in Threads |-> 0]
    /\ nrecv = [t \in Threads |-> 0]
    /\ ioerr = [t \in Threads |-> 0]
    /\ sent = [t \in Threads |-> <<>>]
    /\ now = 1
    /\ serverUp \in BOOLEAN
    /\ connAlive = FALSE
    /\ wire = <<>>
    /\ pipe = <<>>
    /\ ServerIdle
    /\ DispatchIdle
    /\ RouterIdle
    /\ AppIdle
    /\ executed = [i \in 1..MaxId |-> 0]
    /\ LifeIdle

NextClient ==
    \/ \E t \in Threads : \E m \in ClientMethods : Acquire(t, m)
    \/ \E t \in Threads : Connect(t)
    \/ \E t \in Threads : Send(t)
    \/ \E t \in Threads : SendNL(t)
    \/ \E t \in Threads : Recv(t)
    \/ \E t \in Threads : Reconnect(t)
    \/ \E t \in Threads : Return(t)
    \/ Tick
    \/ ServerStop
    \/ ServerStart
    \/ ConnDrop
    \/ ServerAnswer

SpecClient == InitClient /\ [][NextClient]_vars


(***************************************************************************)
(* Claims about the Bridge Client, checked under SpecClient.               *)
(***************************************************************************)

\* C1: an I/O error in the exchange of a request() is followed by a teardown,
\* exactly one reconnect attempt and, when that succeeds, one resend of the
\* same line; a second failure leaves the client disconnected with the
\* failure time recorded and raises ConnectionError; no request() makes more
\* than two sends or more than one reconnect.
C1_SingleRetry ==
    /\ [](\A t \in Threads :
            /\ nsend[t] <= 2
            /\ nreconn[t] <= 1
            /\ pc[t] = "reconnect" => (ioerr[t] = 1 /\ nreconn[t] = 0 /\ _sock = "None" /\ _buf = <<>>)
            /\ (ioerr[t] >= 1 /\ pc[t] # "reconnect") => nreconn[t] = 1
            /\ nsend[t] = 2 => (Len(sent[t]) = 2 /\ sent[t][2] = sent[t][1] /\ ioerr[t] >= 1)
            /\ ioerr[t] = 2 =>
                  /\ pc[t] = "ret"
                  /\ outcome[t].kind = "ConnectionError"
                  /\ _sock = "None"
                  /\ _last_fail # 0)
    /\ [][\A t \in Threads :
            (ioerr[t] = 1 /\ ioerr'[t] = 2) => (_last_fail' = now /\ _sock' = "None")]_vars

\* C1's case: a request whose resend failed as well
C1_Witness ==
    \E t \in Threads : pc[t] = "ret" /\ ioerr[t] = 2 /\ nsend[t] = 2 /\ nreconn[t] = 1

\* C2: a request that lost its connection and then finds the server reachable
\* returns the result of the response that carries its own id, after one
\* reconnect and one resend, and raises no connection error.
C2_TransparentReconnect ==
    \A t \in Threads :
        (pc[t] = "ret" /\ ioerr[t] = 1) =>
            /\ nsend[t] = 2
            /\ nreconn[t] = 1
            /\ outcome[t].kind \notin {"ConnectionError", "ConnectionRefused", "NotReachable"}
            /\ msg[t].method = "ping" => outcome[t] = [kind |-> "result", id |-> msg[t].id]
            /\ msg[t].method = "bogus" => outcome[t] = [kind |-> "ServerError", id |-> msg[t].id]

\* C2's case: the first exchange failed and the request returned a result
C2_Witness ==
    \E t \in Threads :
        pc[t] = "ret" /\ ioerr[t] = 1 /\ outcome[t] = [kind |-> "result", id |-> msg[t].id]

\* C3: with a failure recorded at _last_fail, a request() that reaches _connect
\* while disconnected before _last_fail + _COOLDOWN fails with "not reachable"
\* and touches no socket; one that reaches it at or after that time calls
\* _connect_once.
C3_Cooldown ==
    /\ [](\A t \in Threads :
            outcome[t].kind = "NotReachable" =>
                (nconn[t] = 0 /\ nsend[t] = 0 /\ nrecv[t] = 0 /\ _sock = "None"))
    /\ [][\A t \in Threads :
            (pc[t] = "connect" /\ pc'[t] # "connect" /\ _sock = "None" /\ _last_fail # 0) =>
                IF now < _last_fail + _COOLDOWN
                THEN /\ outcome'[t].kind = "NotReachable"
                     /\ pc'[t] = "ret"
                     /\ nconn'[t] = 0
                     /\ UNCHANGED <<_sock, _buf, _last_fail, _id, evars, rvars, avars, xvars, lvars>>
                ELSE /\ nconn'[t] = 1
                     /\ outcome'[t].kind # "NotReachable"]_vars

\* C3's case: a request failed fast inside the cooldown window
C3_Witness ==
    \E t \in Threads :
        /\ pc[t] = "ret"
        /\ outcome[t].kind = "NotReachable"
        /\ _last_fail # 0
        /\ now < _last_fail + _COOLDOWN

\* a request line on the wire is never cut by another request's blocks
WireFramed ==
    \A i \in 1..Len(wire) :
        IF wire[i] = NewLine
        THEN i > 1 /\ wire[i-1] # NewLine
        ELSE i = Len(wire) \/ wire[i+1] = NewLine

\* C4: at most one thread is inside the steps of request() at a time, that
\* thread holds the lock, and the blocks of two requests are never mixed on
\* the connection.
C4_Serialized ==
    /\ \A t, u \in Threads : (pc[t] # "idle" /\ pc[u] # "idle") => t = u
    /\ \A t \in Threads : pc[t] # "idle" => _lock = t
    /\ (\A t \in Threads : pc[t] = "idle") => _lock = "free"
    /\ WireFramed

\* C4's case: a thread is halfway through its sendall while another is outside
C4_Witness ==
    \E t, u \in Threads :
        /\ t # u
        /\ pc[t] = "sendnl"
        /\ Len(wire) = 1
        /\ pc[u] = "idle"
        /\ _id = 2


(***************************************************************************)
(* The Inspection Server: request lines.                                   *)
(*                                                                         *)
(* A request line is a sequence of blocks.  "open" starts a JSON object    *)
(* and carries its id, method and parameter, "pad" continues it (a long    *)
(* string inside it), "close" ends it; "sp" is whitespace, "arr" a JSON    *)
(* value that is not an object, "txt" text that is not JSON, "bad" bytes   *)
(* that are not UTF-8.  The id 0 stands for a missing or null id, the      *)
(* method "" for a missing method, the parameter "" for a missing one.     *)
(***************************************************************************)
NoneId == 0

Blk(t) == [t |-> t, id |-> NoneId, method |-> "", arg |-> ""]
Open(i, m, a) == [t |-> "open", id |-> i, method |-> m, arg |-> a]
NL == Blk("nl")
SP == Blk("sp")

\* the names a path or an expression can use, the statement n=1 and the
\* call expression bump(), and the parameter values
Names == {"n", "bump", "boom", "leave", "missing", "n=1", "bump()"}
Args == Names \cup {""}

\* values of the namespace: an integer, Absent for an unbound name,
\* Callable for the registered function `bump`, which sets n to 2, Boom for
\* the registered function `boom`, which raises ValueError, Exits for the
\* registered function `leave`, which raises SystemExit
Absent == -1
Callable == -2
Boom == -3
Exits == -4

Functions == {Callable, Boom, Exits}

\* the exception classes that do not derive from Exception
BaseExceptionsOnly == {"SystemExit", "KeyboardInterrupt", "GeneratorExit"}

\* what `except Exception` catches
IsException(err) == err \notin BaseExceptionsOnly

Methods == {"ping", "version", "screenshot", "eval", "inspect", "source", "state",
            "list", "repr", "call", "set", "bogus", ""}

\* _MUTATION_METHODS with one more method in it
MutationMethodsWide == {"eval", "call", "set", "inspect"}

\* _server.py: _MUTATION_METHODS = frozenset({'eval', 'call', 'set'})
_MUTATION_METHODS == {"eval", "call", "set"}

\* bytes.strip(): the line without leading and trailing whitespace
RECURSIVE Strip(_)
Strip(line) ==
    IF line = <<>> THEN <<>>
    ELSE IF Head(line) = SP THEN Strip(Tail(line))
    ELSE IF line[Len(line)] = SP THEN Strip(SubSeq(line, 1, Len(line) - 1))
    ELSE line

\* `if not line.strip(): continue`
IsBlank(line) == Strip(line) = <<>>

\* json.loads(raw): "object", "value" (JSON, but not an object),
\* "JSONDecodeError", or "UnicodeDecodeError" (not a JSONDecodeError)
Parse(raw) ==
    LET body == Strip(raw) IN
    IF \E i \in 1..Len(raw) : raw[i].t = "bad" THEN "UnicodeDecodeError"
    ELSE IF /\ Len(body) >= 2
            /\ body[1].t = "open"
            /\ body[Len(body)].t = "close"
            /\ \A i \in 2..(Len(body) - 1) : body[i].t = "pad"
         THEN "object"
    ELSE IF Len(body) = 1 /\ body[1].t = "arr" THEN "value"
    ELSE "JSONDecodeError"

\* the object json.loads returned
ParsedObject(raw) == Strip(raw)[1]

(***************************************************************************)
(* The operations of _resolve.py, as far as the server's dispatch needs    *)
(* them: what each returns or raises and what it does to the namespace.    *)
(* A result is a pair <<tag, number>>.                                     *)
(***************************************************************************)
Returned(res, ns) == [raised |-> FALSE, res |-> res, err |-> "", ns |-> ns]
Raised(err, ns) == [raised |-> TRUE, res |-> <<>>, err |-> err, ns |-> ns]

\* what calling the value v does: it returns or raises, and `bump` sets n
\* to 2 and returns it
Invoke(v, ns) ==
    IF v = Callable THEN [err |-> "", val |-> 2, ns |-> [ns EXCEPT !["n"] = 2]]
    ELSE IF v = Boom THEN [err |-> "ValueError", val |-> Absent, ns |-> ns]
    ELSE IF v = Exits THEN [err |-> "SystemExit", val |-> Absent, ns |-> ns]
    ELSE [err |-> "TypeError", val |-> Absent, ns |-> ns]

\* resolve(path, namespaces): eval(path, {'__builtins__': ...}, namespaces),
\* the exception it raises ("" when none), the value and the namespace
\* afterwards; a path is any expression, and a call in it is made
resolve(path, ns) ==
    IF path = "n=1" THEN [err |-> "SyntaxError", val |-> Absent, ns |-> ns]
    ELSE IF path = "bump()"
    THEN IF ns["bump"] = Absent
         THEN [err |-> "NameError", val |-> Absent, ns |-> ns]
         ELSE Invoke(ns["bump"], ns)
    ELSE IF ns[path] = Absent THEN [err |-> "NameError", val |-> Absent, ns |-> ns]
    ELSE [err |-> "", val |-> ns[path], ns |-> ns]

ResolveError(path, ns) == resolve(path, ns).err

\* run_code
run_code(code, ns) ==
    IF code = "n=1" THEN Returned(<<"exec", 0>>, [ns EXCEPT !["n"] = 1])
    ELSE IF ResolveError(code, ns) # "" THEN Raised(ResolveError(code, ns), resolve(code, ns).ns)
    ELSE Returned(<<"eval", resolve(code, ns).val>>, resolve(code, ns).ns)

\* inspect_object, list_path, repr_path: resolve, then describe
Describe(tag, path, ns) ==
    IF ResolveError(path, ns) # "" THEN Raised(ResolveError(path, ns), resolve(path, ns).ns)
    ELSE Returned(<<tag, resolve(path, ns).val>>, resolve(path, ns).ns)

\* get_source: an object without source gives a result that carries 'error'
get_source(path, ns) ==
    IF ResolveError(path, ns) # "" THEN Raised(ResolveError(path, ns), resolve(path, ns).ns)
    ELSE Returned(<<IF resolve(path, ns).val \in Functions THEN "source" ELSE "source_error", 0>>,
                  resolve(path, ns).ns)

\* list_state
list_state(ns) == Returned(<<"state", Cardinality({x \in Names : ns[x] # Absent})>>, ns)

\* what resolve(path, namespaces) and fn(*a, **kw) raise inside call_path's
\* try, "" when the call returns
CallRaises(path, ns) ==
    IF ResolveError(path, ns) # "" THEN ResolveError(path, ns)
    ELSE Invoke(resolve(path, ns).val, resolve(path, ns).ns).err

\* call_path: what `except Exception` catches is reported as ok = false,
\* anything else leaves call_path as an exception
call_path(path, ns) ==
    LET err == CallRaises(path, ns) IN
    IF err = "" THEN Returned(<<"call_ok", 0>>, Invoke(resolve(path, ns).val, resolve(path, ns).ns).ns)
    ELSE IF IsException(err) THEN Returned(<<"call_failed", 0>>, resolve(path, ns).ns)
    ELSE Raised(err, resolve(path, ns).ns)

\* set_value with value_expr "1": a path without '.' or '[...]' is bound in
\* the namespace itself
set_value(path, ns) == Returned(<<"set_ok", 1>>, [ns EXCEPT ![path] = 1])

\* the unit of work _call builds for a method that touches the namespace;
\* params['path'] / params['code'] is read inside the unit
UnitOfWork(method, arg, ns) ==
    IF method = "state" THEN list_state(ns)
    ELSE IF arg = "" THEN Raised("KeyError", ns)
    ELSE CASE method = "eval" -> run_code(arg, ns)
           [] method = "inspect" -> Describe("inspect", arg, ns)
           [] method = "source" -> get_source(arg, ns)
           [] method = "list" -> Describe("list", arg, ns)
           [] method = "repr" -> Describe("repr", arg, ns)
           [] method = "call" -> call_path(arg, ns)
           [] method = "set" -> set_value(arg, ns)

BridgedMethods == {"eval", "inspect", "source", "state", "list", "repr", "call", "set"}

\* _Server._call: the outcome, and how many units of work went to
\* _run_in_app_context
_call(method, arg, readonly, ns) ==
    IF readonly /\ method \in _MUTATION_METHODS
    THEN [out |-> Raised("PermissionError", ns), bridge |-> 0]
    ELSE IF method = "ping" THEN [out |-> Returned(<<"pong", 0>>, ns), bridge |-> 0]
    ELSE IF method = "version" THEN [out |-> Returned(<<"version", 0>>, ns), bridge |-> 0]
    ELSE IF method = "screenshot" THEN [out |-> Raised("RuntimeError", ns), bridge |-> 0]
    ELSE IF method \in BridgedMethods
    THEN [out |-> UnitOfWork(method, arg, ns), bridge |-> 1]
    ELSE [out |-> Raised("ValueError", ns), bridge |-> 0]

\* a _dispatch whose error response drops the request's id
ErrorResponseNoId(req_id, err) == [id |-> NoneId, error |-> err]

\* _dispatch: json.dumps({'id': req_id, 'error': ...})
ErrorResponse(req_id, err) == [id |-> req_id, error |-> err]

\* _dispatch: json.dumps({'id': req_id, 'result': result})
ResultResponse(req_id, res) == [id |-> req_id, result |-> res]

NoResponse == [none |-> TRUE]

\* _Server._dispatch(raw): the response line, or the exception that escapes
\* it (only JSONDecodeError is caught around json.loads, req.get runs
\* outside the try, and `except Exception` is what surrounds _call), with
\* the namespace afterwards
_dispatch(raw, readonly, ns) ==
    LET parsed == Parse(raw) IN
    IF parsed = "JSONDecodeError"
    THEN [escaped |-> "", resp |-> ErrorResponse(NoneId, "Invalid JSON"), ns |-> ns, bridge |-> 0]
    ELSE IF parsed = "UnicodeDecodeError"
    THEN [escaped |-> "UnicodeDecodeError", resp |-> NoResponse, ns |-> ns, bridge |-> 0]
    ELSE IF parsed = "value"
    THEN [escaped |-> "AttributeError", resp |-> NoResponse, ns |-> ns, bridge |-> 0]
    ELSE LET req == ParsedObject(raw)
             r == _call(req.method, req.arg, readonly, ns)
         IN  [escaped |-> IF r.out.raised /\ ~IsException(r.out.err) THEN r.out.err ELSE "",
              resp |-> IF r.out.raised /\ ~IsException(r.out.err) THEN NoResponse
                       ELSE IF r.out.raised THEN ErrorResponse(req.id, r.out.err)
                       ELSE ResultResponse(req.id, r.out.res),
              ns |-> r.out.ns,
              bridge |-> r.bridge]


(***************************************************************************)
(* The Inspection Server: accept loop and connection handlers.             *)
(***************************************************************************)
Conns == {"c1", "c2"}

\* peer addresses, as the four octets of addr[0]: the peer of c1 is on the
\* host itself, the peer of c2 is on another host
PeerAddrs ==
    [c \in Conns |-> IF c = "c1" THEN {<<127, 0, 0, 1>>}
                                 ELSE {<<10, 0, 0, 127>>, <<128, 0, 0, 1>>}]

\* a guard that lets every peer in
AnyPeer(addr) == TRUE

\* _is_loopback: ipaddress.ip_address(addr).is_loopback, 127.0.0.0/8 for IPv4
_is_loopback(addr) == addr[1] = 127

InitNamespaces ==
    [x \in Names |-> IF x = "n" THEN 0
                     ELSE IF x = "bump" THEN Callable
                     ELSE IF x = "boom" THEN Boom
                     ELSE IF x = "leave" THEN Exits
                     ELSE Absent]

\* the request lines a peer writes
ObjectLine(i, m, a, pads) == <<Open(i, m, a)>> \o Repeat(Blk("pad"), pads) \o <<Blk("close")>>

PeerLines ==
    [c \in Conns |->
        IF c = "c1"
        THEN { ObjectLine(1, "ping", "", 0),
               ObjectLine(2, "set", "n", 0),
               ObjectLine(2, "ping", "", srv_MAX_BUF - 3),
               <<SP>>,
               <<Blk("arr")>> }
        ELSE { ObjectLine(1, "set", "n", 0) }]

SrvHasLine(b) == \E i \in 1..Len(b) : b[i] = NL
SrvFirstNL(b) == CHOOSE i \in 1..Len(b) : b[i] = NL /\ \A j \in 1..(i-1) : b[j] # NL
\* line, buf = buf.split(b'\n', 1)
SrvLine(b) == SubSeq(b, 1, SrvFirstNL(b) - 1)
SrvRest(b) == SubSeq(b, SrvFirstNL(b) + 1, Len(b))

\* `while b'\n' in buf: ... if not line.strip(): continue`: the buffer with its
\* leading blank lines consumed
RECURSIVE SkipBlank(_)
SkipBlank(b) ==
    IF SrvHasLine(b) /\ IsBlank(SrvLine(b)) THEN SkipBlank(SrvRest(b)) ELSE b

\* the complete non-blank lines in a buffer
RECURSIVE CountLines(_)
CountLines(b) ==
    IF ~SrvHasLine(b) THEN 0
    ELSE (IF IsBlank(SrvLine(b)) THEN 0 ELSE 1) + CountLines(SrvRest(b))

NoConn ==
    [pc |-> "none", addr |-> <<0, 0, 0, 0>>, peer |-> "open", net |-> <<>>, buf |-> <<>>,
     reg |-> 0, line |-> <<>>, resp |-> NoResponse, nlines |-> 0, ndrop |-> 0,
     nresp |-> 0, why |-> ""]

Serving(c) == conn[c].pc \in {"started", "enter", "top", "recv", "lines", "dispatch"}

\* where the handler goes once a line is done or a chunk is in: the next
\* non-blank line, or back to the top of `while self._running`
AfterLines(b) == IF SrvHasLine(SkipBlank(b)) THEN "lines" ELSE "top"

\* _Server.start
Start ==
    /\ accept_pc = "off"
    /\ shutdown_pc = "idle"
    /\ _running' = TRUE
    /\ srv_sock' = "listening"
    /\ accept_pc' = "loop"
    /\ UNCHANGED <<_readonly, _namespaces, n_clients, n_commands, shutdown_pc, conn,
                   lines_sent, cvars, tvars, evars, dvars, rvars, avars, xvars, lvars>>

\* _Server.shutdown: self._running = False
ShutdownFlag ==
    /\ accept_pc # "off"
    /\ shutdown_pc = "idle"
    /\ _running' = FALSE
    /\ shutdown_pc' = "closing"
    /\ UNCHANGED <<_readonly, _namespaces, srv_sock, n_clients, n_commands, accept_pc, conn,
                   lines_sent, cvars, tvars, evars, dvars, rvars, avars, xvars, lvars>>

\* _Server.shutdown: self._sock.close(); self._sock = None
ShutdownClose ==
    /\ shutdown_pc = "closing"
    /\ srv_sock' = "None"
    /\ shutdown_pc' = "done"
    /\ UNCHANGED <<_readonly, _running, _namespaces, n_clients, n_commands, accept_pc, conn,
                   lines_sent, cvars, tvars, evars, dvars, rvars, avars, xvars, lvars>>

\* an accept loop that does not look at the flag
LoopForever(running) == TRUE

\* `while self._running`
LoopRuns(running) == running

\* _accept_loop: `while self._running`
AcceptLoopTest ==
    /\ accept_pc = "loop"
    /\ accept_pc' = IF LoopRuns(_running) THEN "accepting" ELSE "exited"
    /\ UNCHANGED <<_readonly, _running, _namespaces, srv_sock, n_clients, n_commands,
                   shutdown_pc, conn, lines_sent, cvars, tvars, evars, dvars, rvars, avars, xvars, lvars>>

\* _accept_loop: accept() returns a connection; the loopback guard closes it
\* or a handler thread is started for it
Accept(c) ==
    /\ accept_pc = "accepting"
    /\ srv_sock = "listening"
    /\ conn[c].pc = "pending"
    /\ accept_pc' = "loop"
    /\ conn' = [conn EXCEPT ![c] =
            IF _is_loopback(conn[c].addr)
            THEN [@ EXCEPT !.pc = "started"]
            ELSE [@ EXCEPT !.pc = "CLOSED", !.why = "rejected"]]
    /\ UNCHANGED <<_readonly, _running, _namespaces, srv_sock, n_clients, n_commands,
                   shutdown_pc, lines_sent, cvars, tvars, evars, dvars, rvars, avars, xvars, lvars>>

\* _accept_loop: accept() times out (continue) or fails on the closed socket
\* (break).  A timeout while the server is running only leads back to the
\* same accept() and is left out.
AcceptNone ==
    /\ accept_pc = "accepting"
    /\ ~_running \/ srv_sock = "None"
    /\ accept_pc' = IF srv_sock = "listening" THEN "loop" ELSE "exited"
    /\ UNCHANGED <<_readonly, _running, _namespaces, srv_sock, n_clients, n_commands,
                   shutdown_pc, conn, lines_sent, cvars, tvars, evars, dvars, rvars, avars, xvars, lvars>>

\* _handle_client: self.n_clients += 1, the read
EnterLoad(c) ==
    /\ conn[c].pc = "started"
    /\ conn' = [conn EXCEPT ![c].pc = "enter", ![c].reg = n_clients]
    /\ UNCHANGED <<_readonly, _running, _namespaces, srv_sock, n_clients, n_commands,
                   accept_pc, shutdown_pc, lines_sent, cvars, tvars, evars, dvars, rvars, avars, xvars, lvars>>

\* _handle_client: self.n_clients += 1, the write
EnterStore(c) ==
    /\ conn[c].pc = "enter"
    /\ n_clients' = conn[c].reg + 1
    /\ conn' = [conn EXCEPT ![c].pc = "top", ![c].reg = 0]
    /\ UNCHANGED <<_readonly, _running, _namespaces, srv_sock, n_commands,
                   accept_pc, shutdown_pc, lines_sent, cvars, tvars, evars, dvars, rvars, avars, xvars, lvars>>

\* _handle_client: `while self._running`
HandlerLoopTest(c) ==
    /\ conn[c].pc = "top"
    /\ conn' = [conn EXCEPT ![c] =
            IF _running THEN [@ EXCEPT !.pc = "recv"]
            ELSE [@ EXCEPT !.pc = "exit", !.why = "shutdown"]]
    /\ UNCHANGED <<_readonly, _running, _namespaces, srv_sock, n_clients, n_commands,
                   accept_pc, shutdown_pc, lines_sent, cvars, tvars, evars, dvars, rvars, avars, xvars, lvars>>

\* _handle_client: data = client.recv(8192); the empty read, the append and
\* the buffer cap
HandlerRecv(c) ==
    /\ conn[c].pc = "recv"
    /\ \/ \E k \in 1..Min(srv_RECV, Len(conn[c].net)) :
            LET data == SubSeq(conn[c].net, 1, k)
                rest == SubSeq(conn[c].net, k + 1, Len(conn[c].net))
                buf == conn[c].buf \o data
            IN  conn' = [conn EXCEPT ![c] =
                    IF Len(buf) > srv_MAX_BUF
                    THEN [@ EXCEPT !.net = rest, !.buf = buf, !.pc = "exit", !.why = "oversize",
                                   !.nlines = @ + CountLines(buf), !.ndrop = CountLines(buf)]
                    ELSE [@ EXCEPT !.net = rest, !.buf = SkipBlank(buf), !.pc = AfterLines(buf),
                                   !.nlines = @ + CountLines(buf)]]
       \/ /\ conn[c].net = <<>>
          /\ conn[c].peer = "closed"
          /\ conn' = [conn EXCEPT ![c].pc = "exit", ![c].why = "eof"]
       \/ /\ conn[c].peer = "reset"
          /\ conn' = [conn EXCEPT ![c].pc = "exit", ![c].why = "reset"]
    /\ UNCHANGED <<_readonly, _running, _namespaces, srv_sock, n_clients, n_commands,
                   accept_pc, shutdown_pc, lines_sent, cvars, tvars, evars, dvars, rvars, avars, xvars, lvars>>

\* _handle_client: line, buf = buf.split(b'\n', 1); self.n_commands += 1, the read
HandlerLine(c) ==
    /\ conn[c].pc = "lines"
    /\ conn' = [conn EXCEPT ![c].pc = "dispatch",
                            ![c].line = SrvLine(conn[c].buf),
                            ![c].buf = SrvRest(conn[c].buf),
                            ![c].resp = NoResponse,
                            ![c].reg = n_commands]
    /\ UNCHANGED <<_readonly, _running, _namespaces, srv_sock, n_clients, n_commands,
                   accept_pc, shutdown_pc, lines_sent, cvars, tvars, evars, dvars, rvars, avars, xvars, lvars>>

\* _handle_client: self.n_commands += 1, the write; response = self._dispatch(line);
\* client.sendall(response.encode() + b'\n')
HandlerDispatch(c) ==
    LET r == _dispatch(conn[c].line, _readonly, _namespaces) IN
    /\ conn[c].pc = "dispatch"
    /\ n_commands' = conn[c].reg + 1
    /\ _namespaces' = r.ns
    /\ conn' = [conn EXCEPT ![c] =
            IF r.escaped # ""
            THEN [@ EXCEPT !.pc = "exit", !.why = "crash", !.reg = 0]
            ELSE IF conn[c].peer = "reset"
            THEN [@ EXCEPT !.pc = "exit", !.why = "senderr", !.reg = 0]
            ELSE [@ EXCEPT !.pc = AfterLines(conn[c].buf), !.buf = SkipBlank(conn[c].buf),
                           !.resp = r.resp, !.nresp = @ + 1, !.reg = 0]]
    /\ UNCHANGED <<_readonly, _running, srv_sock, n_clients,
                   accept_pc, shutdown_pc, lines_sent, cvars, tvars, evars, dvars, rvars, avars, xvars, lvars>>

\* _handle_client, finally: self.n_clients -= 1, the read
ExitLoad(c) ==
    /\ conn[c].pc = "exit"
    /\ conn' = [conn EXCEPT ![c].pc = "exitstore", ![c].reg = n_clients]
    /\ UNCHANGED <<_readonly, _running, _namespaces, srv_sock, n_clients, n_commands,
                   accept_pc, shutdown_pc, lines_sent, cvars, tvars, evars, dvars, rvars, avars, xvars, lvars>>

\* _handle_client, finally: self.n_clients -= 1, the write; client.close()
ExitStore(c) ==
    /\ conn[c].pc = "exitstore"
    /\ n_clients' = conn[c].reg - 1
    /\ conn' = [conn EXCEPT ![c].pc = "CLOSED", ![c].reg = 0, ![c].net = <<>>, ![c].buf = <<>>]
    /\ UNCHANGED <<_readonly, _running, _namespaces, srv_sock, n_commands,
                   accept_pc, shutdown_pc, lines_sent, cvars, tvars, evars, dvars, rvars, avars, xvars, lvars>>

(***************************************************************************)
(* The peers of the server.                                                *)
(***************************************************************************)
PeerConnect(c, a) ==
    /\ srv_sock = "listening"
    /\ conn[c].pc = "none"
    /\ conn' = [conn EXCEPT ![c].pc = "pending", ![c].addr = a]
    /\ UNCHANGED <<_readonly, _running, _namespaces, srv_sock, n_clients, n_commands,
                   accept_pc, shutdown_pc, lines_sent, cvars, tvars, evars, dvars, rvars, avars, xvars, lvars>>

PeerSend(c, line) ==
    /\ conn[c].pc \notin {"none", "CLOSED"}
    /\ conn[c].peer = "open"
    /\ lines_sent < MaxLines
    /\ lines_sent' = lines_sent + 1
    /\ conn' = [conn EXCEPT ![c].net = @ \o line \o <<NL>>]
    /\ UNCHANGED <<_readonly, _running, _namespaces, srv_sock, n_clients, n_commands,
                   accept_pc, shutdown_pc, cvars, tvars, evars, dvars, rvars, avars, xvars, lvars>>

\* the peer closes its end (the server reads b'') or resets the connection
PeerEnd(c, how) ==
    /\ Serving(c)
    /\ conn[c].peer = "open"
    /\ conn' = [conn EXCEPT ![c].peer = how,
                            ![c].net = IF how = "reset" THEN <<>> ELSE @]
    /\ UNCHANGED <<_readonly, _running, _namespaces, srv_sock, n_clients, n_commands,
                   accept_pc, shutdown_pc, lines_sent, cvars, tvars, evars, dvars, rvars, avars, xvars, lvars>>

ClientIdle ==
    /\ _sock = "None"
    /\ _id = 0
    /\ _buf = <<>>
    /\ _last_fail = 0
    /\ _lock = "free"
    /\ pc = [t \in Threads |-> "idle"]
    /\ msg = [t \in Threads |-> NoMsg]
    /\ try = [t \in Threads |-> 1]
    /\ outcome = [t \in Threads |-> NoOutcome]
    /\ nsend = [t \in Threads |-> 0]
    /\ nconn = [t \in Threads |-> 0]
    /\ nreconn = [t \in Threads |-> 0]
    /\ nrecv = [t \in Threads |-> 0]
    /\ ioerr = [t \in Threads |-> 0]
    /\ sent = [t \in Threads |-> <<>>]
    /\ now = 1
    /\ serverUp = FALSE
    /\ connAlive = FALSE
    /\ wire = <<>>
    /\ pipe = <<>>

\* _Server.__init__
InitServer ==
    /\ _readonly \in BOOLEAN
    /\ _running = FALSE
    /\ _namespaces = InitNamespaces
    /\ srv_sock = "None"
    /\ n_clients = 0
    /\ n_commands = 0
    /\ accept_pc = "off"
    /\ shutdown_pc = "idle"
    /\ conn = [c \in Conns |-> NoConn]
    /\ lines_sent = 0
    /\ ClientIdle
    /\ DispatchIdle
    /\ RouterIdle
    /\ AppIdle
    /\ ExecIdle
    /\ LifeIdle

NextServer ==
    \/ Start
    \/ ShutdownFlag
    \/ ShutdownClose
    \/ AcceptLoopTest
    \/ \E c \in Conns : Accept(c)
    \/ AcceptNone
    \/ \E c \in Conns : EnterLoad(c)
    \/ \E c \in Conns : EnterStore(c)
    \/ \E c \in Conns : HandlerLoopTest(c)
    \/ \E c \in Conns : HandlerRecv(c)
    \/ \E c \in Conns : HandlerLine(c)
    \/ \E c \in Conns : HandlerDispatch(c)
    \/ \E c \in Conns : ExitLoad(c)
    \/ \E c \in Conns : ExitStore(c)
    \/ \E c \in Conns : \E a \in PeerAddrs[c] : PeerConnect(c, a)
    \/ \E c \in Conns : \E line \in PeerLines[c] : PeerSend(c, line)
    \/ \E c \in Conns : \E how \in {"closed", "reset"} : PeerEnd(c, how)

SpecServer == InitServer /\ [][NextServer]_vars


(***************************************************************************)
(* Claims about the accept loop and the connection handlers.               *)
(***************************************************************************)

\* a handler is past its loop: on its way through `finally`, or done
Left(c) == conn[c].pc \in {"exit", "exitstore", "CLOSED"}

\* C7: a malformed request line or an unknown method aborts only that
\* request: the line is answered with an error response and the connection
\* is not closed because of it.
C7_MalformedAbortsOnlyRequest ==
    \A c \in Conns :
        /\ conn[c].why # "crash"
        /\ ( /\ conn[c].line # <<>>
             /\ conn[c].pc # "dispatch"
             /\ conn[c].why # "senderr"
             /\ \/ Parse(conn[c].line) # "object"
                \/ ParsedObject(conn[c].line).method = "bogus" )
           => "error" \in DOMAIN conn[c].resp

\* a line that is JSON but not an object has been dispatched: the handler
\* left its loop on the exception, with no response sent for the line
C7_Witness ==
    /\ conn["c1"].pc = "CLOSED"
    /\ conn["c1"].why = "crash"
    /\ Parse(conn["c1"].line) = "value"
    /\ conn["c1"].resp = NoResponse

\* C8: a connection is closed for size exactly when its accumulator exceeds
\* the cap, with no response for what the accumulator holds, and every
\* complete request line received otherwise is answered (a line whose peer
\* is gone before the answer can be written excepted).
C8_CapAndAnswers ==
    \A c \in Conns :
        /\ conn[c].pc = "exit" /\ conn[c].why = "oversize" => Len(conn[c].buf) > srv_MAX_BUF
        /\ Serving(c) => Len(conn[c].buf) <= srv_MAX_BUF
        /\ Left(c) /\ conn[c].why \notin {"senderr", "rejected"}
              => conn[c].nresp = conn[c].nlines - conn[c].ndrop

\* the part of C8 that is about the cap alone
CapOnly ==
    \A c \in Conns :
        /\ conn[c].pc = "exit" /\ conn[c].why = "oversize" => Len(conn[c].buf) > srv_MAX_BUF
        /\ Serving(c) => Len(conn[c].buf) <= srv_MAX_BUF
        /\ Left(c) /\ conn[c].why \notin {"senderr", "rejected", "crash"}
              => conn[c].nresp = conn[c].nlines - conn[c].ndrop

\* C9: a connection from a peer that is not loopback is closed by the accept
\* loop: no handler runs for it, nothing it sent is read or answered, and the
\* connection counter stays as it was; only loopback peers are ever served.
C9_LoopbackOnly ==
    /\ [](\A c \in Conns :
            /\ conn[c].pc \notin {"none", "pending"} /\ conn[c].addr[1] # 127
                => /\ conn[c].pc = "CLOSED"
                   /\ conn[c].why = "rejected"
                   /\ conn[c].nlines = 0
                   /\ conn[c].nresp = 0
                   /\ conn[c].line = <<>>
            /\ Serving(c) => conn[c].addr[1] = 127)
    /\ [][\A c \in Conns :
            conn[c].pc = "pending" /\ conn'[c].pc # "pending" /\ conn[c].addr[1] # 127
                => /\ conn'[c].pc = "CLOSED"
                   /\ n_clients' = n_clients
                   /\ n_commands' = n_commands
                   /\ _namespaces' = _namespaces]_vars

\* a peer at 128.0.0.1 connected while a loopback peer was being served,
\* wrote a request line and was turned away
C9_Witness ==
    /\ conn["c2"].pc = "CLOSED"
    /\ conn["c2"].why = "rejected"
    /\ conn["c2"].addr = <<128, 0, 0, 1>>
    /\ Len(conn["c2"].net) > 0
    /\ n_clients = 1

\* C10: however the stream of request lines is cut into reads, every
\* non-blank line that has arrived is answered by one response line.
C10_OneResponsePerLine ==
    \A c \in Conns :
        Left(c) /\ conn[c].why \in {"eof", "shutdown", "reset", "crash", "oversize"}
            => conn[c].nresp = conn[c].nlines

\* a JSON array and then a ping were written: the handler left on the first
\* line, the ping is still unread, and nothing has been answered
C10_Witness ==
    /\ conn["c1"].pc = "exit"
    /\ conn["c1"].why = "crash"
    /\ conn["c1"].nlines = 1
    /\ conn["c1"].nresp = 0
    /\ conn["c1"].net = ObjectLine(1, "ping", "", 0) \o <<NL>>

\* the part of C10 that holds: below the cap and without a line that makes
\* _dispatch raise, the responses sent are the lines received
FramingOnly ==
    \A c \in Conns :
        /\ Left(c) /\ conn[c].why \in {"eof", "shutdown", "reset"}
              => conn[c].nresp = conn[c].nlines
        /\ conn[c].pc \in {"top", "recv"} => ~SrvHasLine(conn[c].buf) /\ conn[c].nresp = conn[c].nlines
        /\ conn[c].pc = "dispatch" => ~IsBlank(conn[c].line)


(***************************************************************************)
(* _dispatch on its own: one request line, answered by a server in         *)
(* read-only mode and by a server that is not, from the same namespace.    *)
(***************************************************************************)
MaxPads == 1
MaxReqId == 2

\* request objects of every method, parameter and id, and the lines that
\* are not request objects
DispatchLines ==
    { ObjectLine(i, m, a, p) : i \in NoneId..MaxReqId, m \in Methods, a \in Args, p \in 0..MaxPads }
        \cup { <<SP>> \o ObjectLine(1, "ping", "", 0) \o <<SP>>,
               <<Blk("arr")>>, <<Blk("txt")>>, <<Blk("bad")>>,
               <<Open(1, "ping", "")>>,
               ObjectLine(1, "ping", "", 0) \o <<Blk("txt")>> }

DispatchNamespaces ==
    { InitNamespaces,
      [InitNamespaces EXCEPT !["n"] = 1],
      [InitNamespaces EXCEPT !["missing"] = 0] }

InitDispatch ==
    /\ d_in \in [raw : DispatchLines, ns : DispatchNamespaces]
    /\ d_out = <<>>
    /\ ClientIdle
    /\ ServerIdle
    /\ RouterIdle
    /\ AppIdle
    /\ ExecIdle
    /\ LifeIdle

\* response = self._dispatch(line), with self._readonly set and unset
Dispatch ==
    /\ d_out = <<>>
    /\ d_out' = [on |-> _dispatch(d_in.raw, TRUE, d_in.ns),
                 off |-> _dispatch(d_in.raw, FALSE, d_in.ns)]
    /\ UNCHANGED <<d_in, cvars, tvars, evars, svars, rvars, avars, xvars, lvars>>

NextDispatch == Dispatch

SpecDispatch == InitDispatch /\ [][NextDispatch]_vars

\* the request a dispatched line carries
Dispatched == d_out # <<>> /\ Parse(d_in.raw) = "object"
Req == ParsedObject(d_in.raw)

\* C5: in read-only mode eval, call and set are answered with a permission
\* error, hand no unit of work to the bridge and leave the namespace as it
\* was; inspect, list, repr, source, state, ping and version are answered
\* exactly as they are with read-only mode off.
C5_ReadOnly ==
    Dispatched =>
        /\ Req.method \in {"eval", "call", "set"}
            => /\ d_out.on.resp = [id |-> Req.id, error |-> "PermissionError"]
               /\ d_out.on.bridge = 0
               /\ d_out.on.ns = d_in.ns
               /\ d_out.on.escaped = ""
        /\ Req.method \in {"inspect", "list", "repr", "source", "state", "ping", "version"}
            => d_out.on = d_out.off

\* a set that binds n when read-only mode is off is refused when it is on
C5_Witness ==
    /\ Dispatched
    /\ Req.method = "set"
    /\ Req.arg = "n"
    /\ d_in.ns["n"] = 0
    /\ d_out.off.ns["n"] = 1
    /\ d_out.off.bridge = 1
    /\ d_out.on.ns = d_in.ns
    /\ d_out.on.resp.error = "PermissionError"

\* C6: every response line has exactly one of result and error, and its id
\* is the id of the request line it answers (null for a line that carries
\* no request).
C6_ResponseShape ==
    d_out # <<>> =>
        \A mode \in {"on", "off"} :
            LET resp == d_out[mode].resp IN
            resp # NoResponse =>
                /\ ("result" \in DOMAIN resp) # ("error" \in DOMAIN resp)
                /\ "id" \in DOMAIN resp
                /\ resp.id = IF Parse(d_in.raw) = "object" THEN Req.id ELSE NoneId

\* a request with id 2 is answered with an error in read-only mode and with
\* a result otherwise, both carrying id 2
C6_Witness ==
    /\ Dispatched
    /\ Req.id = 2
    /\ "error" \in DOMAIN d_out.on.resp
    /\ "result" \in DOMAIN d_out.off.resp
    /\ d_out.on.resp.id = 2
    /\ d_out.off.resp.id = 2

(***************************************************************************)
(* The Execution Bridge: _call and _run_in_app_context, with and without   *)
(* a run-on-owner callback.  The callback is one that keeps its contract:  *)
(* it runs the unit it is given once, on the owner thread, and returns     *)
(* what the unit returns.                                                  *)
(***************************************************************************)

\* a bridge that never uses the callback
RunInline(has_invoke_fn, warned) ==
    [thread |-> "conn", warned |-> TRUE, warnings |-> IF warned THEN 0 ELSE 1]

\* _Server._run_in_app_context: the thread the unit of work runs on, the
\* flag _warned_inline afterwards and the warnings logged
_run_in_app_context(has_invoke_fn, warned) ==
    IF has_invoke_fn
    THEN [thread |-> "owner", warned |-> warned, warnings |-> 0]
    ELSE [thread |-> "conn", warned |-> TRUE, warnings |-> IF warned THEN 0 ELSE 1]

\* a namespace that differs from every namespace of DispatchNamespaces in
\* each of its names
OtherNamespaces == [x \in Names |-> IF x = "n" THEN 7 ELSE IF x = "bump" THEN 8 ELSE 9]

InitBridge ==
    /\ d_in \in [raw : DispatchLines, ns : DispatchNamespaces,
                 invoke_fn : BOOLEAN, readonly : BOOLEAN, warned : BOOLEAN]
    /\ d_out = <<>>
    /\ ClientIdle
    /\ ServerIdle
    /\ RouterIdle
    /\ AppIdle
    /\ ExecIdle
    /\ LifeIdle

\* one request line dispatched: the response, the units of work handed to
\* the callback and run on the connection thread, and the response the same
\* line gets from a server that holds another namespace
Bridge ==
    /\ d_out = <<>>
    /\ LET r == _dispatch(d_in.raw, d_in.readonly, d_in.ns)
           ctx == _run_in_app_context(d_in.invoke_fn, d_in.warned)
       IN  d_out' = [resp |-> r.resp,
                     escaped |-> r.escaped,
                     ns |-> r.ns,
                     handed |-> IF ctx.thread = "owner" THEN r.bridge ELSE 0,
                     inline |-> IF ctx.thread = "conn" THEN r.bridge ELSE 0,
                     warned |-> IF r.bridge > 0 THEN ctx.warned ELSE d_in.warned,
                     warnings |-> r.bridge * ctx.warnings,
                     other |-> _dispatch(d_in.raw, d_in.readonly, OtherNamespaces).resp]
    /\ UNCHANGED <<d_in, cvars, tvars, evars, svars, rvars, avars, xvars, lvars>>

NextBridge == Bridge

SpecBridge == InitBridge /\ [][NextBridge]_vars

\* the request was refused by the read-only guard, before any unit of work
\* was built
Refused ==
    /\ d_in.readonly
    /\ Req.method \in {"eval", "call", "set"}
    /\ d_out.resp = [id |-> Req.id, error |-> "PermissionError"]
    /\ d_out.handed = 0
    /\ d_out.inline = 0
    /\ d_out.ns = d_in.ns

\* C11: with a callback configured, a request of a namespace-touching method
\* is executed by handing exactly one unit of work to the callback and runs
\* nothing on the connection thread; ping and version use neither the
\* callback nor the namespace; without a callback the unit runs inline.
C11_Bridge ==
    Dispatched =>
        /\ Req.method \in {"eval", "inspect", "source", "state", "list", "repr", "call", "set"}
            => /\ d_in.invoke_fn => d_out.inline = 0 /\ (d_out.handed = 1 \/ Refused)
               /\ ~d_in.invoke_fn => d_out.handed = 0 /\ (d_out.inline = 1 \/ Refused)
        /\ Req.method \in {"ping", "version"}
            => /\ d_out.handed = 0
               /\ d_out.inline = 0
               /\ d_out.ns = d_in.ns
               /\ d_out.resp = d_out.other

\* a set that binds n went to the callback as one unit of work
C11_Witness ==
    /\ Dispatched
    /\ d_in.invoke_fn
    /\ Req.method = "set"
    /\ Req.arg = "n"
    /\ d_out.handed = 1
    /\ d_out.inline = 0
    /\ d_in.ns["n"] = 0
    /\ d_out.ns["n"] = 1

(***************************************************************************)
(* The Endpoint Router: _AppRouter over the registry of _registry.py.      *)
(*                                                                         *)
(* Every entry has host 'localhost', so a port stands for an endpoint and  *)
(* an entry for its own registry_path.  A _DevToolsClient object is kept   *)
(* as the port it was built for, whether it holds a socket, and its        *)
(* _last_fail.                                                             *)
(***************************************************************************)
MaxRouterTime == 4

Ports == {1, 2}
AppIds == {"a", "b"}

\* the entries apps write with register_app, in the order they are started
Entry(a, p, s) == [app_id |-> a, port |-> p, started_at |-> s]
Entries == { Entry("a", 1, 1), Entry("a", 2, 2), Entry("a", 1, 3), Entry("b", 2, 4) }

\* the order of app ids as strings
IdRank(a) == IF a = "a" THEN 1 ELSE 2

\* sorted(S, key=..., reverse=True) for a key given as a number per entry
RECURSIVE SortedDesc(_, _)
SortedDesc(S, key) ==
    IF S = {} THEN <<>>
    ELSE LET e == CHOOSE x \in S : \A y \in S \ {x} : key[y] < key[x]
         IN  <<e>> \o SortedDesc(S \ {e}, key)

\* key=lambda item: item.get('started_at', 0.0)
ByStarted == [e \in Entries |-> e.started_at]

\* key=lambda item: (item.get('app_id', ''), item.get('started_at', 0.0))
ByIdStarted == [e \in Entries |-> IdRank(e.app_id) * (Cardinality(Entries) + 1) + e.started_at]

\* key=lambda item: (item['app_id'], item['port']), without reverse
ByIdPort == [e \in Entries |-> 0 - (IdRank(e.app_id) * (Cardinality(Ports) + 1) + e.port)]

\* the elements of a sequence that satisfy a test, in order
RECURSIVE SelectApp(_, _)
SelectApp(q, a) ==
    IF q = <<>> THEN <<>>
    ELSE (IF Head(q).app_id = a THEN <<Head(q)>> ELSE <<>>) \o SelectApp(Tail(q), a)

\* resolve: the candidates, newest first
Candidates(reg, a) == SelectApp(SortedDesc(reg, ByStarted), a)

\* running_apps: entries = sorted(list_registered_apps(), key=..., reverse=True)
RunningOrder(reg) == SortedDesc(reg, ByIdStarted)

\* running_apps: return sorted(running, key=lambda item: (item['app_id'], item['port']))
RunningResult(running) == SortedDesc({running[i] : i \in 1..Len(running)}, ByIdPort)

\* running_apps: key = (entry['app_id'], entry['host'], int(entry['port']))
KeyOf(e) == <<e.app_id, e.port>>

\* running_apps: `if key in seen: continue`, for the entries at the head
RECURSIVE SkipSeen(_, _)
SkipSeen(todo, seen) ==
    IF todo # <<>> /\ KeyOf(Head(todo)) \in seen THEN SkipSeen(Tail(todo), seen) ELSE todo

\* _DevToolsClient(host, port, timeout=...)
NewClient(p) == [port |-> p, sock |-> FALSE, last_fail |-> 0]

\* _DevToolsClient.request as the router sees it: whether it returned, whether
\* it did any socket I/O, and the client afterwards.  A client that holds a
\* socket to a server that is gone fails its send or receive, and its one
\* reconnect succeeds exactly when a server listens.
ClientRequest(o, listening, t) ==
    IF o.sock
    THEN IF listening
         THEN [ok |-> TRUE, io |-> TRUE, obj |-> o]
         ELSE [ok |-> FALSE, io |-> TRUE, obj |-> [o EXCEPT !.sock = FALSE, !.last_fail = t]]
    ELSE IF InCooldown(o.last_fail, t)
    THEN [ok |-> FALSE, io |-> FALSE, obj |-> o]
    ELSE IF listening
    THEN [ok |-> TRUE, io |-> TRUE, obj |-> [o EXCEPT !.sock = TRUE, !.last_fail = 0]]
    ELSE [ok |-> FALSE, io |-> TRUE, obj |-> [o EXCEPT !.last_fail = t]]

NoEntry == Entry("", 0, 0)
NoResult == [kind |-> "none", entry |-> NoEntry, list |-> <<>>]

\* a thread that is not inside a router call.  Besides the locals of the
\* call a thread keeps what the call has done so far: the registry it
\* started from, the entries that answered its ping, the entries it
\* unregistered, the ports at which a ping it sent went unanswered, and
\* whether a probe of it failed without any I/O.  Apps start, stop and
\* register between two router calls.
NoCall ==
    [pc |-> "idle", op |-> "", app_id |-> "", phase |-> "", todo |-> <<>>, seen |-> {},
     running |-> <<>>, cl |-> 0, why |-> "", target |-> NoEntry, outcome |-> NoResult,
     snap |-> {}, answered |-> {}, removed |-> {}, failports |-> {}, fast |-> FALSE]

\* running_apps: the loop is over
FinishRunning(r) ==
    [r EXCEPT !.pc = "done", !.todo = <<>>,
              !.outcome = [kind |-> IF r.why = "return" THEN "list" ELSE "error",
                           entry |-> NoEntry, list |-> RunningResult(r.running)]]

\* running_apps: from the first line to the first entry to probe
StartRunning(r, reg, why) ==
    LET r1 == [r EXCEPT !.phase = "running", !.why = why, !.seen = {}, !.running = <<>>,
                        !.todo = RunningOrder(reg)]
    IN  IF r1.todo = <<>> THEN FinishRunning(r1) ELSE [r1 EXCEPT !.pc = "get"]

\* running_apps: on to the next entry whose key has not been seen
NextRunning(r) ==
    LET todo == SkipSeen(Tail(r.todo), r.seen)
    IN  IF todo = <<>> THEN FinishRunning(r) ELSE [r EXCEPT !.todo = todo, !.pc = "get"]

\* resolve: from the first line to the first candidate to probe
StartResolve(r, reg) ==
    LET cands == Candidates(reg, r.app_id)
    IN  IF cands = <<>> THEN StartRunning(r, reg, "unknown")
        ELSE [r EXCEPT !.phase = "resolve", !.todo = cands, !.pc = "get"]

\* the port _get_client is called for
PortOf(r) == IF r.phase = "forward" THEN r.target.port ELSE Head(r.todo).port

\* a thread calls running_apps(), resolve(app_id) or request(app_id=..., ...)
RouterCall(t, op, a) ==
    /\ rt[t].pc = "idle"
    /\ op = "running_apps" => a = ""
    /\ op = "resolve" => a # ""
    /\ LET r == [NoCall EXCEPT !.op = op, !.app_id = a, !.snap = registry]
       IN  rt' = [rt EXCEPT ![t] =
                CASE op = "running_apps" -> StartRunning(r, registry, "return")
                  [] op = "resolve" -> StartResolve(r, registry)
                  [] op = "request" ->
                        IF _direct_client # 0 /\ a = ""
                        THEN [r EXCEPT !.phase = "direct", !.cl = _direct_client, !.pc = "send"]
                        ELSE IF a = "" THEN StartRunning(r, registry, "required")
                        ELSE StartResolve(r, registry)]
    /\ UNCHANGED <<registry, last_started, live, _clients, _direct_client, objs,
                   cvars, tvars, evars, svars, dvars, avars, xvars, lvars>>

\* _get_client: client = self._clients.get(key)
GetClient(t) ==
    /\ rt[t].pc = "get"
    /\ LET c == _clients[PortOf(rt[t])]
       IN  rt' = [rt EXCEPT ![t].cl = c,
                            ![t].pc = IF c = 0 THEN "make"
                                      ELSE IF rt[t].phase = "forward" THEN "send" ELSE "ping"]
    /\ UNCHANGED <<registry, last_started, live, _clients, _direct_client, objs,
                   cvars, tvars, evars, svars, dvars, avars, xvars, lvars>>

\* _get_client: client = _DevToolsClient(...); self._clients[key] = client
MakeClient(t) ==
    /\ rt[t].pc = "make"
    /\ objs' = Append(objs, NewClient(PortOf(rt[t])))
    /\ _clients' = [_clients EXCEPT ![PortOf(rt[t])] = Len(objs) + 1]
    /\ rt' = [rt EXCEPT ![t].cl = Len(objs) + 1,
                        ![t].pc = IF rt[t].phase = "forward" THEN "send" ELSE "ping"]
    /\ UNCHANGED <<registry, last_started, live, _direct_client,
                   cvars, tvars, evars, svars, dvars, avars, xvars, lvars>>

\* _is_alive: self._get_client(host, port).request('ping'), and on any
\* exception unregister_app(entry.get('registry_path')); then the rest of
\* the loop body of resolve or running_apps that called it
Ping(t) ==
    LET r == rt[t]
        e == Head(r.todo)
        res == ClientRequest(objs[r.cl], e.port \in live, now)
        reg == IF res.ok THEN registry ELSE registry \ {e}
        r1 == IF res.ok
              THEN [r EXCEPT !.answered = @ \cup {e}]
              ELSE [r EXCEPT !.removed = @ \cup {e},
                             !.failports = IF res.io THEN @ \cup {e.port} ELSE @,
                             !.fast = @ \/ ~res.io]
    IN  /\ r.pc = "ping"
        /\ objs' = [objs EXCEPT ![r.cl] = res.obj]
        /\ registry' = reg
        /\ rt' = [rt EXCEPT ![t] =
                IF r.phase = "resolve"
                THEN IF res.ok
                     THEN IF r.op = "resolve"
                          THEN [r1 EXCEPT !.pc = "done", !.todo = <<>>,
                                          !.outcome = [kind |-> "entry", entry |-> e, list |-> <<>>]]
                          ELSE [r1 EXCEPT !.phase = "forward", !.target = e, !.todo = <<>>,
                                          !.pc = "get"]
                     ELSE IF Tail(r.todo) = <<>>
                          THEN StartRunning(r1, reg, "unknown")
                          ELSE [r1 EXCEPT !.todo = Tail(r.todo), !.pc = "get"]
                ELSE IF res.ok
                     THEN NextRunning([r1 EXCEPT !.seen = @ \cup {KeyOf(e)},
                                                 !.running = Append(@, e)])
                     ELSE NextRunning(r1)]
        /\ UNCHANGED <<last_started, live, _clients, _direct_client,
                       cvars, tvars, evars, svars, dvars, avars, xvars, lvars>>

\* request: the call forwarded through the direct client or the client of
\* the resolved endpoint
Forward(t) ==
    LET r == rt[t]
        res == ClientRequest(objs[r.cl], objs[r.cl].port \in live, now)
    IN  /\ r.pc = "send"
        /\ objs' = [objs EXCEPT ![r.cl] = res.obj]
        /\ rt' = [rt EXCEPT ![t].pc = "done",
                            ![t].fast = r.fast \/ ~res.io,
                            ![t].outcome = [kind |-> IF res.ok THEN "result" ELSE "ConnectionError",
                                            entry |-> r.target, list |-> <<>>]]
        /\ UNCHANGED <<registry, last_started, live, _clients, _direct_client,
                       cvars, tvars, evars, svars, dvars, avars, xvars, lvars>>

\* the call returns or raises to its caller
RouterReturn(t) ==
    /\ rt[t].pc = "done"
    /\ rt' = [rt EXCEPT ![t] = NoCall]
    /\ UNCHANGED <<registry, last_started, live, _clients, _direct_client, objs,
                   cvars, tvars, evars, svars, dvars, avars, xvars, lvars>>

\* no router call is in progress
Quiet == \A t \in Threads : rt[t].pc = "idle"

\* time passes between two router calls
RouterTick ==
    /\ Quiet
    /\ now < MaxRouterTime
    /\ now' = now + 1
    /\ UNCHANGED <<cvars, tvars, serverUp, connAlive, wire, pipe, svars, dvars, rvars, avars, xvars, lvars>>

\* register_app: an app that has started writes its entry
register_app(e) ==
    /\ Quiet
    /\ e \notin registry
    /\ e.started_at > last_started
    /\ registry' = registry \cup {e}
    /\ last_started' = e.started_at
    /\ UNCHANGED <<rt, live, _clients, _direct_client, objs, cvars, tvars, evars, svars, dvars, avars, xvars, lvars>>

\* an app starts to listen on a port
AppUp(p) ==
    /\ Quiet
    /\ p \notin live
    /\ live' = live \cup {p}
    /\ UNCHANGED <<rt, registry, last_started, _clients, _direct_client, objs,
                   cvars, tvars, evars, svars, dvars, avars, xvars, lvars>>

\* the app that listens on a port goes away and leaves its entry behind
AppDown(p) ==
    /\ Quiet
    /\ p \in live
    /\ live' = live \ {p}
    /\ UNCHANGED <<rt, registry, last_started, _clients, _direct_client, objs,
                   cvars, tvars, evars, svars, dvars, avars, xvars, lvars>>

\* the port of direct mode (--port)
DirectPort == 1

\* _AppRouter.__init__, in direct mode or not
InitRouter ==
    /\ registry = {}
    /\ last_started = 0
    /\ live = {}
    /\ _clients = [p \in Ports |-> 0]
    /\ \/ _direct_client = 0 /\ objs = <<>>
       \/ _direct_client = 1 /\ objs = <<NewClient(DirectPort)>>
    /\ rt = [t \in Threads |-> NoCall]
    /\ ClientIdle
    /\ ServerIdle
    /\ DispatchIdle
    /\ AppIdle
    /\ ExecIdle
    /\ LifeIdle

\* the thread that calls the router
Callers == {"t1"}

NextRouter ==
    \/ \E t \in Callers : \E op \in {"running_apps", "resolve", "request"} :
            \E a \in AppIds \cup {""} : RouterCall(t, op, a)
    \/ \E t \in Callers : GetClient(t)
    \/ \E t \in Callers : MakeClient(t)
    \/ \E t \in Callers : Ping(t)
    \/ \E t \in Callers : Forward(t)
    \/ \E t \in Callers : RouterReturn(t)
    \/ \E e \in Entries : register_app(e)
    \/ \E p \in Ports : AppUp(p)
    \/ \E p \in Ports : AppDown(p)
    \/ RouterTick

SpecRouter == InitRouter /\ [][NextRouter]_vars

(***************************************************************************)
(* Claims about the router.                                                *)
(***************************************************************************)

\* the entries of the call's app id that were registered when the call
\* started and whose server answers ping
LiveCandidates(r) == {e \in r.snap : e.app_id = r.app_id /\ e.port \in live}

Newest(S) == CHOOSE e \in S : \A f \in S : f.started_at <= e.started_at

\* what resolve should have returned
ResolvedRight(r) ==
    IF LiveCandidates(r) # {}
    THEN r.outcome.kind = "entry" /\ r.outcome.entry = Newest(LiveCandidates(r))
    ELSE r.outcome.kind = "error"

\* C12: resolve(name) returns the most recently created entry of that name
\* whose server is live, and fails only when no entry of that name has a
\* live server.
C12_ResolveNewestLive ==
    \A t \in Threads :
        rt[t].pc = "done" /\ rt[t].op = "resolve" => ResolvedRight(rt[t])

\* resolve failed although the only entry of the name is that of a server
\* that listens: its client was still in the cooldown of an earlier failure
C12_Witness ==
    /\ rt["t1"].pc = "done"
    /\ rt["t1"].op = "resolve"
    /\ rt["t1"].app_id = "a"
    /\ rt["t1"].snap = {Entry("a", 1, 3)}
    /\ 1 \in live
    /\ rt["t1"].outcome.kind = "error"
    /\ rt["t1"].failports = {}
    /\ Entry("a", 1, 3) \notin registry

\* the part of C12 that holds: a resolve none of whose probes was cut short
\* by a cooldown
ResolveProbing ==
    \A t \in Threads :
        rt[t].pc = "done" /\ rt[t].op = "resolve" /\ ~rt[t].fast => ResolvedRight(rt[t])

(***************************************************************************)
(* Two threads inside the router at once, over a registry and a set of     *)
(* servers that stay as they are.                                          *)
(***************************************************************************)
InitRace ==
    /\ registry = Entries
    /\ last_started = Cardinality(Entries)
    /\ live \in SUBSET Ports
    /\ _clients = [p \in Ports |-> 0]
    /\ _direct_client = 0
    /\ objs = <<>>
    /\ rt = [t \in Threads |-> NoCall]
    /\ ClientIdle
    /\ ServerIdle
    /\ DispatchIdle
    /\ AppIdle
    /\ ExecIdle
    /\ LifeIdle

NextRace ==
    \/ \E t \in Threads : \E op \in {"running_apps", "resolve", "request"} :
            \E a \in AppIds \cup {""} : RouterCall(t, op, a)
    \/ \E t \in Threads : GetClient(t)
    \/ \E t \in Threads : MakeClient(t)
    \/ \E t \in Threads : Ping(t)
    \/ \E t \in Threads : Forward(t)
    \/ \E t \in Threads : RouterReturn(t)

SpecRace == InitRace /\ [][NextRace]_vars

\* C15: at most one client object is ever created per endpoint, and every
\* probe and every forwarded request to an endpoint goes through it.
C15_OneClientPerEndpoint ==
    /\ \A i, j \in 1..Len(objs) : objs[i].port = objs[j].port => i = j
    /\ \A t \in Threads :
            rt[t].pc \in {"ping", "send"} /\ rt[t].phase # "direct"
                => rt[t].cl = _clients[PortOf(rt[t])]

\* two threads each built a client for port 1, and the first thread pings
\* through a client that _clients no longer holds
C15_Witness ==
    /\ Len(objs) = 2
    /\ objs[1].port = 1
    /\ objs[2].port = 1
    /\ rt["t1"].pc = "ping"
    /\ rt["t1"].cl = 1
    /\ _clients[1] = 2

\* a call of running_apps() is over
RunningDone(t) == rt[t].pc = "done" /\ rt[t].op = "running_apps"

\* the entries of a list
Listed(l) == {l[i] : i \in 1..Len(l)}

\* C13: every entry running_apps() returns answered a ping made during the
\* call, every entry whose probe failed has been removed, and an entry is
\* removed only if a ping sent to its endpoint during the call went
\* unanswered; entries that answered stay.
C13_PruneOnlyFailedProbes ==
    \A t \in Threads :
        RunningDone(t) =>
            /\ Listed(rt[t].outcome.list) \subseteq rt[t].answered
            /\ rt[t].removed \cap registry = {}
            /\ \A e \in rt[t].removed : e.port \in rt[t].failports
            /\ rt[t].answered \subseteq registry

\* running_apps() removed the entry of a server that listens, without
\* sending it anything
C13_Witness ==
    /\ RunningDone("t1")
    /\ rt["t1"].snap = {Entry("a", 1, 3)}
    /\ rt["t1"].removed = {Entry("a", 1, 3)}
    /\ rt["t1"].failports = {}
    /\ 1 \in live
    /\ registry = {}

\* the part of C13 that holds: a call none of whose probes was cut short by
\* a cooldown
PruneProbing ==
    \A t \in Threads :
        RunningDone(t) /\ ~rt[t].fast =>
            /\ Listed(rt[t].outcome.list) = rt[t].answered
            /\ rt[t].removed \cap registry = {}
            /\ \A e \in rt[t].removed : e.port \in rt[t].failports /\ e.port \notin live
            /\ rt[t].answered \subseteq registry

\* C14: the list running_apps() returns has no two entries with the same
\* app id, host and port, and the entries of one app id are in it newest
\* first.
C14_DedupNewestFirst ==
    \A t \in Threads :
        RunningDone(t) =>
            LET l == rt[t].outcome.list IN
            \A i, j \in 1..Len(l) :
                i < j => /\ KeyOf(l[i]) # KeyOf(l[j])
                         /\ l[i].app_id = l[j].app_id => l[i].started_at > l[j].started_at

\* two servers of app a answer: the older one, on the lower port, is listed
\* before the newer one
C14_Witness ==
    /\ RunningDone("t1")
    /\ rt["t1"].outcome.list = <<Entry("a", 1, 1), Entry("a", 2, 2)>>

\* the part of C14 that holds: no key twice, sorted by app id and port
DedupOnly ==
    \A t \in Threads :
        RunningDone(t) =>
            LET l == rt[t].outcome.list IN
            \A i, j \in 1..Len(l) :
                i < j => /\ KeyOf(l[i]) # KeyOf(l[j])
                         /\ ByIdPort[l[i]] > ByIdPort[l[j]]

(***************************************************************************)
(* _safe_repr.  A representation is a sequence of characters; the object's *)
(* own repr() either returns one or raises.                                *)
(***************************************************************************)
MaxStr == 4
MaxReprLen == 5

Chars == {"a", "b"}
Strings == UNION { [1..n -> Chars] : n \in 0..MaxStr }

Ellipsis == <<".", ".", ".">>

\* f'<repr error: {e}>'
ReprError == <<"<", "repr error", ">">>

Max(a, b) == IF a > b THEN a ELSE b

\* r[:n], with Python's reading of a negative n as counted from the end
SliceTo(r, n) ==
    SubSeq(r, 1, IF n < 0 THEN Max(Len(r) + n, 0) ELSE Min(n, Len(r)))

\* _safe_repr(obj, maxlen), r being what repr(obj) returns when it returns
_safe_repr(r, raises, maxlen) ==
    IF raises THEN ReprError
    ELSE IF Len(r) > maxlen THEN SliceTo(r, maxlen - 3) \o Ellipsis
    ELSE r

InitRepr ==
    /\ d_in \in [r : Strings, raises : BOOLEAN, maxlen : 0..MaxReprLen]
    /\ d_out = <<>>
    /\ ClientIdle
    /\ ServerIdle
    /\ RouterIdle
    /\ AppIdle
    /\ ExecIdle
    /\ LifeIdle

SafeRepr ==
    /\ d_out = <<>>
    /\ d_out' = [repr |-> _safe_repr(d_in.r, d_in.raises, d_in.maxlen)]
    /\ UNCHANGED <<d_in, cvars, tvars, evars, svars, rvars, avars, xvars, lvars>>

NextRepr == SafeRepr

SpecRepr == InitRepr /\ [][NextRepr]_vars

\* C19: the bounded repr is the full representation when that is at most
\* max_repr_len long, otherwise its first max_repr_len - 3 characters and the
\* ellipsis, and so never longer than max_repr_len; a repr that raises gives
\* the error marker.
C19_BoundedRepr ==
    d_out # <<>> =>
        /\ d_in.raises => d_out.repr = ReprError
        /\ ~d_in.raises /\ Len(d_in.r) <= d_in.maxlen => d_out.repr = d_in.r
        /\ ~d_in.raises /\ Len(d_in.r) > d_in.maxlen
            => /\ d_out.repr = SubSeq(d_in.r, 1, d_in.maxlen - 3) \o Ellipsis
               /\ Len(d_out.repr) <= d_in.maxlen

\* a four-character representation bounded to two characters comes back six
\* characters long
C19_Witness ==
    /\ d_out # <<>>
    /\ ~d_in.raises
    /\ d_in.maxlen = 2
    /\ Len(d_in.r) = 4
    /\ Len(d_out.repr) = 6

\* from max_repr_len = 3 on, the bounded repr is as C19 describes it
ReprFromThree ==
    d_out # <<>> /\ d_in.maxlen >= 3 =>
        /\ d_in.raises => d_out.repr = ReprError
        /\ ~d_in.raises /\ Len(d_in.r) <= d_in.maxlen => d_out.repr = d_in.r
        /\ ~d_in.raises /\ Len(d_in.r) > d_in.maxlen
            => /\ d_out.repr = SubSeq(d_in.r, 1, d_in.maxlen - 3) \o Ellipsis
               /\ Len(d_out.repr) = d_in.maxlen

(***************************************************************************)
(* _serialize_obj on a heap of objects.  Objects 1 and 2 are a dict or a   *)
(* list and may hold any of the objects 1..3, themselves included; object  *)
(* 3 is a str, a set or a plain object with public attributes; object 4 is *)
(* a str.  A value is an object's identity, as id(obj) is in the code.  Of *)
(* a plain object, kids are the values of its public attributes that are   *)
(* not callable, in the order of their names, and methods is the number of *)
(* its public callables.                                                   *)
(***************************************************************************)
MaxKids == 2
MaxDepth == 3
MaxItems == 2

\* the default of max_repr_len
max_repr_len == 200

ObjIds == 1..4
Root == 1

KidSeqs(S, n) == UNION { [1..k -> S] : k \in 0..n }

StrObj == [kind |-> "str", kids |-> <<>>]

Branches == [kind : {"dict", "list"}, kids : KidSeqs(1..3, MaxKids)]

Leaves ==
    { StrObj,
      [kind |-> "set", kids |-> <<>>],
      [kind |-> "set", kids |-> <<4>>],
      [kind |-> "object", kids |-> <<4>>, methods |-> 0],
      [kind |-> "object", kids |-> <<4>>, methods |-> 1],
      [kind |-> "object", kids |-> <<1, 4>>, methods |-> 0],
      [kind |-> "object", kids |-> <<1, 4>>, methods |-> 1] }

Heaps ==
    { [o \in ObjIds |-> IF o = 1 THEN a ELSE IF o = 2 THEN b ELSE IF o = 3 THEN c ELSE StrObj] :
        a \in Branches, b \in Branches, c \in Leaves }

\* isinstance(obj, Mapping) and not isinstance(obj, (str, bytes))
IsMapping(kind) == kind = "dict"

\* isinstance(obj, (Sequence, Set)) and not isinstance(obj, (str, bytes))
IsSequenceOrSet(kind) == kind \in {"list", "set"}

\* repr(obj)
ReprOf(heap, obj) == <<"<", heap[obj].kind, ">">>

CircularRef == <<"<circular ref>">>

\* absence of the 'length' key
NoLength == -1

\* a serializer without cycle detection
NeverOnPath(oid, _seen) == FALSE

\* oid in _seen
OnPath(oid, _seen) == oid \in _seen

\* a depth gate that lets depth max_depth through
PastMaxDepth(_depth, max_depth) == _depth > max_depth

\* _depth >= max_depth
AtMaxDepth(_depth, max_depth) == _depth >= max_depth

\* a cap that lets one more item through
CappedLate(i, max_items) == i > max_items

\* i >= max_items
Capped(i, max_items) == i >= max_items

\* for i, item in enumerate(...): if i >= max_items: truncated, break;
\* i is the 0-based index the loop is at, and so the number of children
\* appended so far
RECURSIVE Enumerate(_, _, _)
Enumerate(kids, i, max_items) ==
    IF i >= Len(kids) THEN [n |-> i, truncated |-> FALSE]
    ELSE IF Capped(i, max_items) THEN [n |-> i, truncated |-> TRUE]
    ELSE Enumerate(kids, i + 1, max_items)

\* all_public = [n for n in dir(obj) if not n.startswith('_')], counted
all_public(heap, obj) == Len(heap[obj].kids) + heap[obj].methods

\* _get_public_attrs: how many attributes it returns (the cap is tested
\* after the append); n is the number appended so far
RECURSIVE _get_public_attrs(_, _, _)
_get_public_attrs(kids, n, max_items) ==
    IF n >= Len(kids) THEN n
    ELSE IF n + 1 >= max_items THEN n + 1
    ELSE _get_public_attrs(kids, n + 1, max_items)

\* a serializer that never takes an identity out of the set again
NeverDiscard(_seen, oid) == _seen

\* _seen.discard(oid)
Discard(_seen, oid) == _seen \ {oid}

\* _serialize_obj.  A node carries the keys of the code's dict as fields:
\* length (NoLength when the key is absent), truncated (FALSE when absent),
\* field (which of 'entries', 'items', 'attrs' is present, "none" when none
\* is), kids (the serialized children of entries or items) and attrs; `of'
\* is the object the node describes.  _seen is one set that all the calls
\* share and change in place: entry is what it holds when the call that
\* made the node begins, exit what it holds when that call returns, and
\* each child begins with what the child before it left.
RECURSIVE _serialize_obj(_, _, _, _, _, _)
_serialize_obj(heap, obj, max_depth, max_items, _depth, _seen) ==
    LET kind == heap[obj].kind
        kids == heap[obj].kids
        rstr == _safe_repr(ReprOf(heap, obj), FALSE, max_repr_len)
        bare == [of |-> obj, type |-> kind, repr |-> rstr, length |-> NoLength,
                 truncated |-> FALSE, field |-> "none", kids |-> <<>>, attrs |-> <<>>,
                 entry |-> _seen, exit |-> _seen]
        added == _seen \cup {obj}
        node == [bare EXCEPT !.length = IF IsMapping(kind) \/ IsSequenceOrSet(kind)
                                        THEN Len(kids) ELSE NoLength,
                             !.exit = Discard(added, obj)]
        e == Enumerate(kids, 0, max_items)
        kid[i \in 1..e.n] ==
            _serialize_obj(heap, kids[i], max_depth, max_items, _depth + 1,
                           IF i = 1 THEN added ELSE kid[i - 1].exit)
        children == [i \in 1..e.n |-> kid[i]]
        after == IF e.n = 0 THEN added ELSE kid[e.n].exit
        na == _get_public_attrs(kids, 0, max_items)
    IN  IF OnPath(obj, _seen) THEN [bare EXCEPT !.repr = CircularRef]
        ELSE IF AtMaxDepth(_depth, max_depth) THEN node
        ELSE IF IsMapping(kind)
        THEN [node EXCEPT !.truncated = e.truncated,
                          !.field = IF e.n > 0 THEN "entries" ELSE "none",
                          !.kids = children,
                          !.exit = Discard(after, obj)]
        ELSE IF IsSequenceOrSet(kind)
        THEN [node EXCEPT !.truncated = e.truncated,
                          !.field = IF e.n > 0 THEN "items" ELSE "none",
                          !.kids = children,
                          !.exit = Discard(after, obj)]
        ELSE IF na = 0 THEN node
        ELSE [node EXCEPT !.field = "attrs",
                          !.attrs = [i \in 1..na |->
                                        [name |-> i, type |-> heap[kids[i]].kind,
                                         repr |-> _safe_repr(ReprOf(heap, kids[i]), FALSE, max_repr_len)]],
                          !.truncated = all_public(heap, obj) > max_items]

InitSerialize ==
    /\ d_in \in [heap : Heaps, max_depth : 0..MaxDepth, max_items : 0..MaxItems]
    /\ d_out = <<>>
    /\ ClientIdle
    /\ ServerIdle
    /\ RouterIdle
    /\ AppIdle
    /\ ExecIdle
    /\ LifeIdle

\* inspect_object: tree = _serialize_obj(obj, max_depth=..., max_items=...)
Serialize ==
    /\ d_out = <<>>
    /\ d_out' = [tree |-> _serialize_obj(d_in.heap, Root, d_in.max_depth, d_in.max_items, 0, {})]
    /\ UNCHANGED <<d_in, cvars, tvars, evars, svars, rvars, avars, xvars, lvars>>

NextSerialize == Serialize

SpecSerialize == InitSerialize /\ [][NextSerialize]_vars

\* the nodes of a serialized tree, each with its recursion depth and the
\* objects its ancestors describe
RECURSIVE Places(_, _, _)
Places(node, depth, path) ==
    {[node |-> node, depth |-> depth, path |-> path]}
        \cup UNION { Places(node.kids[i], depth + 1, path \cup {node.of}) : i \in 1..Len(node.kids) }

Serialized == d_out # <<>>
Tree == Places(d_out.tree, 0, {})

Childless(node) == node.field = "none" /\ node.kids = <<>> /\ node.attrs = <<>>

\* C16: serialization ends whatever max_depth is, because the objects on an
\* active recursion path are pairwise distinct (so a path is never longer
\* than the heap), and a node whose object is already on the path above it
\* is a type+repr node with the circular-reference marker and no children.
C16_CycleMarker ==
    Serialized =>
        \A p \in Tree :
            /\ p.depth = Cardinality(p.path)
            /\ p.depth < Cardinality(ObjIds)
            /\ p.node.of \in p.path
                => /\ p.node.repr = CircularRef
                   /\ p.node.type = d_in.heap[p.node.of].kind
                   /\ p.node.length = NoLength
                   /\ ~p.node.truncated
                   /\ Childless(p.node)

\* two containers that hold each other, serialized with max_depth above the
\* length of the cycle: the root reappears two levels down as a marker
C16_Witness ==
    /\ Serialized
    /\ d_in.max_depth = MaxDepth
    /\ d_in.max_items = MaxItems
    /\ d_in.heap[1].kids = <<2>>
    /\ d_in.heap[2] = [kind |-> "dict", kids |-> <<1>>]
    /\ d_out.tree.kids[1].field = "entries"
    /\ d_out.tree.kids[1].kids[1].of = Root
    /\ d_out.tree.kids[1].kids[1].repr = CircularRef
    /\ Childless(d_out.tree.kids[1].kids[1])

\* the node's children are the first n entries of its object, in order
FirstChildren(node, n) ==
    /\ Len(node.kids) = n
    /\ \A i \in 1..n : node.kids[i].of = d_in.heap[node.of].kids[i]

\* what C17 says of one node
ItemsCapped(node) ==
    LET n == Len(d_in.heap[node.of].kids)
        k == d_in.max_items
    IN  /\ n > k => FirstChildren(node, k) /\ node.truncated
        /\ n <= k => FirstChildren(node, n) /\ ~node.truncated

\* C17 as stated: every mapping, sequence or set serialized at a depth below
\* max_depth has exactly max_items children and truncated = true when it has
\* more than max_items entries, and all its entries as children and no
\* truncated field otherwise.
C17_ItemCap ==
    Serialized =>
        \A p \in Tree :
            /\ d_in.heap[p.node.of].kind \in {"dict", "list", "set"}
            /\ p.depth < d_in.max_depth
            => ItemsCapped(p.node)

\* C17, amended: the same for every mapping, sequence or set serialized at a
\* depth below max_depth that is not already on the active recursion path.
C17_ItemCapOffPath ==
    Serialized =>
        \A p \in Tree :
            /\ d_in.heap[p.node.of].kind \in {"dict", "list", "set"}
            /\ p.depth < d_in.max_depth
            /\ p.node.of \notin p.path
            => ItemsCapped(p.node)

\* a list of two entries one level down, serialized with max_items = 1:
\* one child and truncated = true
C17_Witness ==
    /\ Serialized
    /\ d_in.max_items = 1
    /\ d_in.max_depth >= 2
    /\ d_in.heap[1].kids = <<2>>
    /\ d_in.heap[2] = [kind |-> "list", kids |-> <<3, 3>>]
    /\ Len(d_out.tree.kids[1].kids) = 1
    /\ d_out.tree.kids[1].truncated
    /\ d_out.tree.kids[1].field = "items"

\* C18: no node at recursion depth >= max_depth has entries, items or attrs,
\* and no node is deeper than max_depth.
C18_DepthGate ==
    Serialized =>
        \A p \in Tree :
            /\ p.depth <= d_in.max_depth
            /\ p.depth >= d_in.max_depth => Childless(p.node)
            /\ ~Childless(p.node) => p.depth < d_in.max_depth

\* a non-empty container reached at depth max_depth = 2 for the first time
\* is left without children
C18_Witness ==
    /\ Serialized
    /\ d_in.max_depth = 2
    /\ d_in.max_items = MaxItems
    /\ d_in.heap[1].kids = <<2>>
    /\ d_in.heap[2].kids = <<3>>
    /\ d_in.heap[3] = [kind |-> "object", kids |-> <<4>>, methods |-> 0]
    /\ d_out.tree.kids[1].kids[1].of = 3
    /\ d_out.tree.kids[1].kids[1].repr # CircularRef
    /\ Childless(d_out.tree.kids[1].kids[1])

(***************************************************************************)
(* The call operation, seen from the connection: a call request dispatched *)
(* by a server that is not in read-only mode.                              *)
(***************************************************************************)
CallDispatched == Dispatched /\ Req.method = "call" /\ Req.arg # ""

\* C20: whatever the path, a call request is answered with a result: ok =
\* true when the path resolves to a callable that returns, ok = false when
\* the path does not resolve, the value is not callable or the callable
\* raises; no exception leaves the call operation.
C20_CallNeverRaises ==
    CallDispatched =>
        /\ d_out.off.escaped = ""
        /\ d_out.off.resp =
              ResultResponse(Req.id,
                             IF CallRaises(Req.arg, d_in.ns) = "" THEN <<"call_ok", 0>>
                             ELSE <<"call_failed", 0>>)

\* a call of `leave`, which raises SystemExit, gets no response: the
\* exception leaves _dispatch
C20_Witness ==
    /\ CallDispatched
    /\ Req.arg = "leave"
    /\ d_in.ns["leave"] = Exits
    /\ d_out.off.escaped = "SystemExit"
    /\ d_out.off.resp = NoResponse

\* a call that raises nothing or an Exception is answered as C20 says
CallCatchesExceptions ==
    CallDispatched /\ IsException(CallRaises(Req.arg, d_in.ns)) =>
        /\ d_out.off.escaped = ""
        /\ d_out.off.resp =
              ResultResponse(Req.id,
                             IF CallRaises(Req.arg, d_in.ns) = "" THEN <<"call_ok", 0>>
                             ELSE <<"call_failed", 0>>)

(***************************************************************************)
(* set_value and repr_path on a namespace of four roots.  A path or an     *)
(* expression is the sequence of its tokens.  A value is a record: an int  *)
(* with its number n, or a root with the int it holds under the name n:    *)
(* a dict holds it as the item 'n', an object as the attribute n, a frozen *)
(* object as an attribute that rejects assignment.                         *)
(***************************************************************************)
MaxVal == 2

Val(kind, n) == [kind |-> kind, n |-> n]

\* the namespace the requests start from
AssignNamespaces ==
    { [p \in {<<"counter">>, <<"o">>, <<"ro">>} |->
            IF p = <<"counter">> THEN Val("dict", a)
            ELSE IF p = <<"o">> THEN Val("object", b)
            ELSE Val("frozen", 0)] : a \in 0..MaxVal, b \in 0..MaxVal }

AssignPaths ==
    { <<"counter", ".", "n">>, <<"counter", "[", "'n'", "]">>, <<"counter", "[", "zz", "]">>,
      <<"o", ".", "n">>, <<"o", "[", "'n'", "]">>, <<"ro", ".", "n">>,
      <<"missing", ".", "n">>, <<"top">>, <<"counter">>, <<"1", "+", "1">> }

ValueExprs == { <<"5">>, <<"nope">>, <<"1", "+">> }

IntLiterals == {"1", "5"}
IntOf(tok) == IF tok = "5" THEN 5 ELSE 1

Value(v) == [err |-> "", v |-> v]
Error(e) == [err |-> e, v |-> Val("none", 0)]

\* eval(expr, {'__builtins__': ...}, namespaces) of a single token
EvalToken(tok, ns) ==
    IF tok \in IntLiterals THEN Value(Val("int", IntOf(tok)))
    ELSE IF tok = "'n'" THEN Value(Val("str", 0))
    ELSE IF <<tok>> \in DOMAIN ns THEN Value(ns[<<tok>>])
    ELSE Error("NameError")

\* obj.n
GetAttr(obj) ==
    IF obj.kind \in {"object", "frozen"} THEN Value(Val("int", obj.n))
    ELSE Error("AttributeError")

\* obj['n']
GetItem(obj, key) ==
    IF obj.kind = "dict" /\ key.kind = "str" THEN Value(Val("int", obj.n))
    ELSE IF obj.kind = "dict" THEN Error("KeyError")
    ELSE Error("TypeError")

\* resolve(path, namespaces): eval of the whole expression
Resolve(expr, ns) ==
    IF Len(expr) = 1 THEN EvalToken(expr[1], ns)
    ELSE IF Len(expr) = 3 /\ expr[2] = "." /\ expr[3] = "n"
    THEN LET base == EvalToken(expr[1], ns) IN
         IF base.err # "" THEN base ELSE GetAttr(base.v)
    ELSE IF Len(expr) = 3 /\ expr[2] = "+" /\ expr[1] \in IntLiterals /\ expr[3] \in IntLiterals
    THEN Value(Val("int", IntOf(expr[1]) + IntOf(expr[3])))
    ELSE IF Len(expr) = 4 /\ expr[2] = "[" /\ expr[4] = "]"
    THEN LET base == EvalToken(expr[1], ns)
             key == EvalToken(expr[3], ns)
         IN  IF base.err # "" THEN base
             ELSE IF key.err # "" THEN key
             ELSE GetItem(base.v, key.v)
    ELSE Error("SyntaxError")

\* the largest i with path[i] = tok, 0 when there is none
LastIndex(path, tok) ==
    LET at == { i \in 1..Len(path) : path[i] = tok } IN
    IF at = {} THEN 0 ELSE CHOOSE i \in at : \A j \in at : j <= i

\* _BRACKET_TAIL_RE = r'^(.+)\[(.+)\]$': where the bracket of the match
\* opens, 0 when the path does not match
BracketTail(path) ==
    LET at == { i \in 2..(Len(path) - 2) : path[i] = "[" } IN
    IF Len(path) >= 4 /\ path[Len(path)] = "]" /\ at # {}
    THEN CHOOSE i \in at : \A j \in at : j <= i
    ELSE 0

\* parent[key] = val
SetItem(name, obj, key, val, ns) ==
    IF obj.kind = "dict" /\ key.kind = "str" THEN Value([ns EXCEPT ![name] = Val("dict", val.n)])
    ELSE Error("TypeError")

\* setattr(parent, 'n', val)
SetAttr(name, obj, val, ns) ==
    IF obj.kind = "object" THEN Value([ns EXCEPT ![name] = Val("object", val.n)])
    ELSE Error("AttributeError")

\* namespaces[path] = val
Bind(path, val, ns) == [p \in DOMAIN ns \cup {path} |-> IF p = path THEN val ELSE ns[p]]

\* str(val) as _safe_repr sees it
ReprText(v) == <<v.kind, v.n>>

Raising(e, ns) == [raised |-> e, result |-> [ok |-> FALSE, error_type |-> "", new_value_repr |-> <<>>], ns |-> ns]
Failed(e, ns) == [raised |-> "", result |-> [ok |-> FALSE, error_type |-> e, new_value_repr |-> <<>>], ns |-> ns]
Assigned(val, ns) ==
    [raised |-> "",
     result |-> [ok |-> TRUE, error_type |-> "", new_value_repr |-> _safe_repr(ReprText(val), FALSE, max_repr_len)],
     ns |-> ns]

\* the statements of set_value's try block: the namespace afterwards, or
\* the exception raised
SetValueTry(path, val, ns) ==
    LET m == BracketTail(path)
        dot == LastIndex(path, ".")
    IN  IF m # 0
        THEN LET parent == Resolve(SubSeq(path, 1, m - 1), ns)
                 key == Resolve(SubSeq(path, m + 1, Len(path) - 1), ns)
             IN  IF parent.err # "" THEN Error(parent.err)
                 ELSE IF key.err # "" THEN Error(key.err)
                 ELSE SetItem(SubSeq(path, 1, m - 1), parent.v, key.v, val, ns)
        ELSE IF dot = 0 THEN Value(Bind(path, val, ns))
        ELSE LET parent == Resolve(SubSeq(path, 1, dot - 1), ns) IN
             IF parent.err # "" THEN Error(parent.err)
             ELSE SetAttr(SubSeq(path, 1, dot - 1), parent.v, val, ns)

\* set_value(path, namespaces, value_expr): value_expr is evaluated before
\* the try block is entered
SetValueOutcome(path, value_expr, ns) ==
    LET val == Resolve(value_expr, ns) IN
    IF val.err # "" THEN Raising(val.err, ns)
    ELSE LET done == SetValueTry(path, val.v, ns) IN
         IF done.err # "" THEN Failed(done.err, ns)
         ELSE Assigned(val.v, done.v)

\* repr_path(path, namespaces)
ReprPathOutcome(path, ns) ==
    LET obj == Resolve(path, ns) IN
    IF obj.err # "" THEN [raised |-> obj.err, result |-> [path |-> path, type |-> "", repr |-> <<>>]]
    ELSE [raised |-> "",
          result |-> [path |-> path, type |-> obj.v.kind,
                      repr |-> _safe_repr(ReprText(obj.v), FALSE, max_repr_len)]]

InitAssign ==
    /\ d_in \in [path : AssignPaths, value_expr : ValueExprs, ns : AssignNamespaces]
    /\ d_out = <<>>
    /\ ClientIdle
    /\ ServerIdle
    /\ RouterIdle
    /\ AppIdle
    /\ ExecIdle
    /\ LifeIdle

\* the request set(path, value_expr)
SetValue ==
    /\ d_out = <<>>
    /\ d_out' = [set |-> SetValueOutcome(d_in.path, d_in.value_expr, d_in.ns), repr |-> <<>>]
    /\ UNCHANGED <<d_in, cvars, tvars, evars, svars, rvars, avars, xvars, lvars>>

\* the request repr(path) that follows it, on the namespace set left
ReprPath ==
    /\ d_out # <<>>
    /\ d_out.repr = <<>>
    /\ d_out' = [d_out EXCEPT !.repr = ReprPathOutcome(d_in.path, d_out.set.ns)]
    /\ UNCHANGED <<d_in, cvars, tvars, evars, svars, rvars, avars, xvars, lvars>>

NextAssign == SetValue \/ ReprPath

SpecAssign == InitAssign /\ [][NextAssign]_vars

SetDone == d_out # <<>>
ReprDone == d_out # <<>> /\ d_out.repr # <<>>

\* the result set_value returned is one of its two shapes, and a failure
\* left the namespace as it was
SetResultShape ==
    /\ d_out.set.raised = ""
    /\ d_out.set.result.ok
        => d_out.set.result.new_value_repr # <<>> /\ d_out.set.result.error_type = ""
    /\ ~d_out.set.result.ok
        => /\ d_out.set.result.error_type # ""
           /\ d_out.set.result.new_value_repr = <<>>
           /\ d_out.set.ns = d_in.ns

\* C21: set never raises: for every path and value_expr it returns ok = true
\* with new_value_repr or ok = false with error and error_type, also when
\* value_expr fails to evaluate, a parent or key fails to resolve or the
\* target rejects the assignment; with ok = false the target holds the
\* value it held before.
C21_SetTotal == SetDone => SetResultShape

\* a value_expr that names nothing makes set_value raise NameError
C21_Witness ==
    /\ SetDone
    /\ d_in.value_expr = <<"nope">>
    /\ d_in.path = <<"o", ".", "n">>
    /\ d_out.set.raised = "NameError"
    /\ d_out.set.ns = d_in.ns

\* with a value_expr that evaluates, set_value is total
SetTotalOnceEvaluated ==
    SetDone /\ Resolve(d_in.value_expr, d_in.ns).err = "" => SetResultShape

\* what repr(path) has to report after set(path, "5") returned ok = true
ReprOfAssigned ==
    /\ d_out.repr.raised = ""
    /\ d_out.repr.result.path = d_in.path
    /\ d_out.repr.result.type = "int"
    /\ d_out.repr.result.repr = d_out.set.result.new_value_repr

\* C22: with counter = {"n": 0}, set("counter.n", "5") returns ok = true
\* with new_value_repr "5" and the repr("counter.n") that follows returns
\* type "int" and repr "5"; and whenever set(path, value_expr) returned
\* ok = true, repr(path) resolves to the type and repr of the assigned value.
C22_SetReprRoundTrip ==
    ReprDone =>
        /\ /\ d_in.path = <<"counter", ".", "n">>
           /\ d_in.value_expr = <<"5">>
           /\ d_in.ns[<<"counter">>] = Val("dict", 0)
           => /\ d_out.set.raised = ""
              /\ d_out.set.result.ok
              /\ d_out.set.result.new_value_repr = ReprText(Val("int", 5))
              /\ ReprOfAssigned
        /\ d_out.set.raised = "" /\ d_out.set.result.ok => ReprOfAssigned

\* the scenario as the code runs it: set reports AttributeError, the
\* mapping still holds 0 and repr("counter.n") raises AttributeError
C22_Witness ==
    /\ ReprDone
    /\ d_in.path = <<"counter", ".", "n">>
    /\ d_in.value_expr = <<"5">>
    /\ d_in.ns[<<"counter">>] = Val("dict", 0)
    /\ d_out.set.result = [ok |-> FALSE, error_type |-> "AttributeError", new_value_repr |-> <<>>]
    /\ d_out.set.ns = d_in.ns
    /\ d_out.repr.raised = "AttributeError"

\* a set that returned ok = true on a path that names a location (a name, an
\* attribute or an item) is followed by a repr of the assigned value
RoundTripOnLocations ==
    ReprDone /\ d_out.set.raised = "" /\ d_out.set.result.ok /\ d_in.path # <<"1", "+", "1">>
        => ReprOfAssigned

\* the round trip C22 describes, on the path that indexes the mapping
RoundTripOnItem ==
    /\ ReprDone
    /\ d_in.path = <<"counter", "[", "'n'", "]">>
    /\ d_in.ns[<<"counter">>] = Val("dict", 0)
    /\ d_out.set.result.ok
    /\ d_out.repr.result.repr = ReprText(Val("int", 5))

(***************************************************************************)
(* list_path on the objects of a heap: a dict, a list, a set or a plain    *)
(* object.  The keys of a dict are 1..n, in the order of iteration.        *)
(***************************************************************************)

\* a cap that lets one more key through
ListCappedLate(i, max_items) == i > max_items

\* list_path: `if i >= max_items`
ListCapped(i, max_items) == i >= max_items

\* for i, k in enumerate(obj): if i >= max_items: truncated, break
RECURSIVE ListEnumerate(_, _, _)
ListEnumerate(n, i, max_items) ==
    IF i >= n THEN [n |-> i, truncated |-> FALSE]
    ELSE IF ListCapped(i, max_items) THEN [n |-> i, truncated |-> TRUE]
    ELSE ListEnumerate(n, i + 1, max_items)

\* repr(k)
ReprOfKey(i) == <<"key", i>>

\* {'type': ..., 'repr': _safe_repr(item, maxlen=max_repr_len)}
ListItem(heap, obj) ==
    [type |-> heap[obj].kind, repr |-> _safe_repr(ReprOf(heap, obj), FALSE, max_repr_len)]

\* list_path; the keys absent from the code's dict are NoLength, FALSE and
\* empty sequences here
list_path(heap, obj, max_items) ==
    LET kind == heap[obj].kind
        kids == heap[obj].kids
        e == ListEnumerate(Len(kids), 0, max_items)
        na == _get_public_attrs(kids, 0, max_items)
        node == [type |-> kind, kind |-> "object", length |-> NoLength, truncated |-> FALSE,
                 keys |-> <<>>, items |-> <<>>, attrs |-> <<>>]
    IN  IF IsMapping(kind)
        THEN [node EXCEPT !.kind = "mapping", !.length = Len(kids), !.truncated = e.truncated,
                          !.keys = [i \in 1..e.n |-> ReprOfKey(i)]]
        ELSE IF IsSequenceOrSet(kind)
        THEN [node EXCEPT !.kind = "sequence", !.length = Len(kids), !.truncated = e.truncated,
                          !.items = [i \in 1..e.n |-> ListItem(heap, kids[i])]]
        ELSE [node EXCEPT !.attrs = [i \in 1..na |->
                                        [name |-> i, type |-> heap[kids[i]].kind,
                                         repr |-> _safe_repr(ReprOf(heap, kids[i]), FALSE, max_repr_len)]],
                          !.truncated = all_public(heap, obj) > max_items]

InitList ==
    /\ d_in \in { r \in [heap : Heaps, obj : 1..3, max_items : 0..MaxItems] :
                    r.heap[r.obj].kind # "str" }
    /\ d_out = <<>>
    /\ ClientIdle
    /\ ServerIdle
    /\ RouterIdle
    /\ AppIdle
    /\ ExecIdle
    /\ LifeIdle

ListPath ==
    /\ d_out = <<>>
    /\ d_out' = [node |-> list_path(d_in.heap, d_in.obj, d_in.max_items)]
    /\ UNCHANGED <<d_in, cvars, tvars, evars, svars, rvars, avars, xvars, lvars>>

NextList == ListPath

SpecList == InitList /\ [][NextList]_vars

\* C23: list on a mapping of n keys returns kind "mapping", length n and
\* all n keys without truncated when n <= max_items, the first max_items
\* keys with truncated = true when n > max_items; and no listing, of a
\* mapping, a sequence or an object, holds a nested node: a key is a repr,
\* an item a type and a repr, an attribute a name, a type and a repr.
C23_ShallowList ==
    d_out # <<>> =>
        LET node == d_out.node
            n == Len(d_in.heap[d_in.obj].kids)
            k == d_in.max_items
        IN  /\ d_in.heap[d_in.obj].kind = "dict"
                => /\ node.kind = "mapping"
                   /\ node.length = n
                   /\ node.items = <<>> /\ node.attrs = <<>>
                   /\ n <= k => node.keys = [i \in 1..n |-> ReprOfKey(i)] /\ ~node.truncated
                   /\ n > k => node.keys = [i \in 1..k |-> ReprOfKey(i)] /\ node.truncated
            /\ \A i \in 1..Len(node.items) : DOMAIN node.items[i] = {"type", "repr"}
            /\ \A i \in 1..Len(node.attrs) : DOMAIN node.attrs[i] = {"name", "type", "repr"}
            /\ \A i \in 1..Len(node.keys) : node.keys[i] = ReprOfKey(i)

\* a mapping of two keys, one of them bound to a non-empty container, listed
\* with max_items = 1: the first key alone, truncated = true
C23_Witness ==
    /\ d_out # <<>>
    /\ d_in.obj = 1
    /\ d_in.max_items = 1
    /\ d_in.heap[1] = [kind |-> "dict", kids |-> <<2, 3>>]
    /\ d_in.heap[2].kids # <<>>
    /\ d_out.node.keys = <<ReprOfKey(1)>>
    /\ d_out.node.truncated
    /\ d_out.node.length = 2

(***************************************************************************)
(* Shutdown.  The accept loop is a thread of its own that the scheduler    *)
(* keeps running: whenever it can take a step it eventually does.          *)
(***************************************************************************)
AcceptThread == AcceptLoopTest \/ AcceptNone \/ \E c \in Conns : Accept(c)

SpecServerFair == SpecServer /\ WF_vars(AcceptThread)

\* C24: once shutdown() is called the accept loop eventually exits; once it
\* has returned no connection is accepted or handed to a handler any more;
\* and shutdown itself leaves every connection as it was, the served ones
\* included.
C24_Shutdown ==
    /\ (shutdown_pc # "idle") ~> (accept_pc = "exited")
    /\ [][shutdown_pc = "done" =>
            \A c \in Conns : conn[c].pc \in {"none", "pending"} => conn'[c].pc = conn[c].pc]_vars
    /\ [][shutdown_pc' # shutdown_pc => conn' = conn]_vars

\* shutdown has returned and the accept loop has exited, with one connection
\* still waiting in the backlog and one being served
C24_Witness ==
    /\ shutdown_pc = "done"
    /\ accept_pc = "exited"
    /\ conn["c2"].pc = "pending"
    /\ Serving("c1")


(***************************************************************************)
(* DevTools and the server it starts: register, unregister,                *)
(* set_main_thread_invoker and start on the app's side, and the handler    *)
(* threads of two connections on the server's side.  A dict is kept by its *)
(* identity, so that holding a dict and holding a copy of it differ.  A    *)
(* request is a ping, a repr of a root or a set of a root; a handler       *)
(* thread goes through _run_in_app_context one statement at a time.        *)
(***************************************************************************)
Roots == {"app", "late"}

\* the objects an app registers, and the value of a name a dict does not hold
Objs == {1, 2}
Unbound == 0

\* the dict DevTools.__init__ creates
NsDict == 1

Handlers == Conns

AppRequests == [method : {"ping", "repr", "set"}, path : Roots]

NoReq == [method |-> "none", path |-> ""]
NoResp == [none |-> TRUE]

\* a server that resolves against a namespace of its own
OwnNamespace(srv, ds) == [r \in Roots |-> Unbound]

\* the namespace a request of the server is resolved against:
\* `ns = self._namespaces`, the dict object the server was given
ServerNamespace(srv, ds) == ds[srv._namespaces]

\* what a unit of work returns or raises on a namespace, and the namespace
\* it leaves: repr_path(path, ns) and set_value(path, ns, value_expr) for
\* a path that is a top-level name and a value_expr that evaluates to 2
Answer(req, ns) ==
    CASE req.method = "repr" ->
            [resp |-> IF ns[req.path] = Unbound
                      THEN [error |-> "NameError"]
                      ELSE [result |-> ns[req.path]],
             ns |-> ns]
      [] req.method = "set" ->
            [resp |-> [result |-> 2], ns |-> [ns EXCEPT ![req.path] = 2]]

\* DevTools.__init__, no start() yet
InitApp ==
    /\ dicts = [i \in {NsDict} |-> [r \in Roots |-> Unbound]]
    /\ dt = [_namespaces |-> NsDict, _server |-> "None", _invoke_fn |-> FALSE]
    /\ app_server = <<>>
    /\ n_warnings = 0
    /\ h = [c \in Handlers |-> [pc |-> "idle", req |-> NoReq, resp |-> NoResp, thread |-> "none"]]
    /\ d_in = <<>>
    /\ d_out = <<>>
    /\ ClientIdle
    /\ ServerIdle
    /\ RouterIdle
    /\ ExecIdle
    /\ LifeIdle

\* DevTools.register: self._namespaces[name] = obj
Register(name, obj) ==
    /\ dicts' = [dicts EXCEPT ![dt._namespaces][name] = obj]
    /\ UNCHANGED <<dt, app_server, n_warnings, h, cvars, tvars, evars, svars, dvars, rvars, xvars, lvars>>

\* DevTools.unregister: self._namespaces.pop(name, None)
Unregister(name) ==
    /\ dicts' = [dicts EXCEPT ![dt._namespaces][name] = Unbound]
    /\ UNCHANGED <<dt, app_server, n_warnings, h, cvars, tvars, evars, svars, dvars, rvars, xvars, lvars>>

\* DevTools.set_main_thread_invoker, with a callback or with None
SetMainThreadInvoker(callback) ==
    /\ dt' = [dt EXCEPT !._invoke_fn = callback]
    /\ app_server' = IF dt._server # "None"
                     THEN [app_server EXCEPT !._invoke_fn = callback]
                     ELSE app_server
    /\ UNCHANGED <<dicts, n_warnings, h, cvars, tvars, evars, svars, dvars, rvars, xvars, lvars>>

\* DevTools.start, which returns at once when a server is running:
\* start_server(self._namespaces, invoke_fn=self._invoke_fn) and
\* _Server.__init__
DevToolsStart ==
    /\ dt._server = "None"
    /\ app_server' = [_namespaces |-> dt._namespaces,
                      _invoke_fn |-> dt._invoke_fn,
                      _warned_inline |-> FALSE]
    /\ dt' = [dt EXCEPT !._server = "server"]
    /\ UNCHANGED <<dicts, n_warnings, h, cvars, tvars, evars, svars, dvars, rvars, xvars, lvars>>

\* _call on a handler thread: ping is answered at once, the other methods
\* enter _run_in_app_context
Receive(c, req) ==
    /\ dt._server # "None"
    /\ h[c].pc = "idle"
    /\ h' = [h EXCEPT ![c] =
                IF req.method = "ping"
                THEN [pc |-> "idle", req |-> req, resp |-> [result |-> "pong"], thread |-> "none"]
                ELSE [pc |-> "ctx", req |-> req, resp |-> NoResp, thread |-> "none"]]
    /\ UNCHANGED <<dicts, dt, app_server, n_warnings, cvars, tvars, evars, svars, dvars, rvars, xvars, lvars>>

\* if self._invoke_fn is not None: return self._invoke_fn(fn)
CtxTest(c) ==
    /\ h[c].pc = "ctx"
    /\ h' = [h EXCEPT ![c].pc = IF app_server._invoke_fn THEN "run" ELSE "test",
                      ![c].thread = IF app_server._invoke_fn THEN "owner" ELSE "conn"]
    /\ UNCHANGED <<dicts, dt, app_server, n_warnings, cvars, tvars, evars, svars, dvars, rvars, xvars, lvars>>

\* if not self._warned_inline:
WarnTest(c) ==
    /\ h[c].pc = "test"
    /\ h' = [h EXCEPT ![c].pc = IF app_server._warned_inline THEN "run" ELSE "warn"]
    /\ UNCHANGED <<dicts, dt, app_server, n_warnings, cvars, tvars, evars, svars, dvars, rvars, xvars, lvars>>

\* self._warned_inline = True; log.warning(...)
Warn(c) ==
    /\ h[c].pc = "warn"
    /\ app_server' = [app_server EXCEPT !._warned_inline = TRUE]
    /\ n_warnings' = n_warnings + 1
    /\ h' = [h EXCEPT ![c].pc = "run"]
    /\ UNCHANGED <<dicts, dt, cvars, tvars, evars, svars, dvars, rvars, xvars, lvars>>

\* fn(), on the owner thread or inline, and the response of the request
Run(c) ==
    /\ h[c].pc = "run"
    /\ LET r == Answer(h[c].req, ServerNamespace(app_server, dicts))
       IN  /\ h' = [h EXCEPT ![c].pc = "idle", ![c].resp = r.resp]
           /\ dicts' = [dicts EXCEPT ![app_server._namespaces] = r.ns]
    /\ UNCHANGED <<dt, app_server, n_warnings, cvars, tvars, evars, svars, dvars, rvars, xvars, lvars>>

NextApp ==
    \/ \E name \in Roots : \E obj \in Objs : Register(name, obj)
    \/ \E name \in Roots : Unregister(name)
    \/ \E callback \in BOOLEAN : SetMainThreadInvoker(callback)
    \/ DevToolsStart
    \/ \E c \in Handlers : \E req \in AppRequests : Receive(c, req)
    \/ \E c \in Handlers : CtxTest(c)
    \/ \E c \in Handlers : WarnTest(c)
    \/ \E c \in Handlers : Warn(c)
    \/ \E c \in Handlers : Run(c)

SpecApp == InitApp /\ [][NextApp]_vars

\* C25: the server holds the namespace by reference: the dict of the server
\* is the dict of DevTools, and every request that executes is resolved
\* against the roots DevTools holds at that moment, whatever was registered
\* or unregistered before or after start(); what it binds is bound for
\* DevTools too.
C25_ByReference ==
    /\ [](dt._server # "None" => app_server._namespaces = dt._namespaces)
    /\ [][\A c \in Handlers :
            h[c].pc = "run" /\ h'[c].pc = "idle" =>
                /\ h'[c].resp = Answer(h[c].req, dicts[dt._namespaces]).resp
                /\ dicts'[dt._namespaces] = Answer(h[c].req, dicts[dt._namespaces]).ns]_vars

\* a repr of late was answered with a NameError and a later one with the
\* object registered in between, both by the started server
C25_Witness ==
    /\ h["c1"].pc = "idle"
    /\ h["c1"].req = [method |-> "repr", path |-> "late"]
    /\ h["c1"].resp = [error |-> "NameError"]
    /\ h["c2"].pc = "idle"
    /\ h["c2"].req = [method |-> "repr", path |-> "late"]
    /\ h["c2"].resp = [result |-> 1]
    /\ dicts[dt._namespaces]["late"] = 1

\* C27: without a run-on-owner callback the inline-fallback warning is
\* logged exactly once in the life of a server, by the first request that
\* runs inline, and it is never logged while a callback is configured.
C27_WarnOnce ==
    /\ [](n_warnings <= 1)
    /\ [](\A c \in Handlers : h[c].pc = "run" /\ h[c].thread = "conn" => n_warnings >= 1)
    /\ [][n_warnings' > n_warnings => ~app_server._invoke_fn]_vars

\* both handler threads found the flag unset and each logged the warning
C27_Witness ==
    /\ n_warnings = 2
    /\ ~app_server._invoke_fn
    /\ \A c \in Handlers : h[c].pc = "run" /\ h[c].thread = "conn"

\* the flag is tested and set under no lock, so each handler thread can log
\* the warning once, and no more
WarningsPerThread == n_warnings <= Cardinality(Handlers)

\* the warning is logged once at most when the requests come one at a time
WarnOnceSerial ==
    (\A c \in Handlers : c # "c1" => h[c].pc = "idle" /\ h[c].req = NoReq) => n_warnings <= 1


(***************************************************************************)
(* Null ids, under SpecDispatch.                                           *)
(***************************************************************************)
\* C26: every request line that parses as JSON is answered with a response
\* whose id is not null.
C26_NullIdOnlyOnParseFailure ==
    d_out # <<>> /\ Parse(d_in.raw) \in {"object", "value"} =>
        \A mode \in {"on", "off"} :
            /\ d_out[mode].resp # NoResponse
            /\ d_out[mode].resp.id # NoneId

\* a ping that carries no id parses, and its pong carries a null id
C26_Witness ==
    /\ Dispatched
    /\ Req.method = "ping"
    /\ Req.id = NoneId
    /\ d_out.off.resp = [id |-> NoneId, result |-> <<"pong", 0>>]

\* a request object that carries an id is never answered with a null id
NullIdOnlyWithoutId ==
    Dispatched /\ Req.id # NoneId =>
        \A mode \in {"on", "off"} :
            d_out[mode].resp # NoResponse => d_out[mode].resp.id = Req.id


(***************************************************************************)
(* max_repr_len on its way from a request to _safe_repr: the inspect, list *)
(* and repr cases of _Server._call.  params is <<m>> when the request      *)
(* carries max_repr_len = m and <<>> when it carries none; r is what       *)
(* repr() returns for the object the path names (inspect, repr) or for an  *)
(* item of it (list).                                                      *)
(***************************************************************************)
ReprMethods == {"inspect", "list", "repr"}

\* params.get('max_repr_len', 200)
ParamsGet(params, default) == IF params = <<>> THEN default ELSE params[1]

\* the maxlen _safe_repr is called with: inspect_object and list_path are
\* given params.get('max_repr_len', 200), repr_path is called with path and
\* ns alone and uses the default of its keyword
MaxLenPassed(method, params) ==
    IF method \in {"inspect", "list"}
    THEN ParamsGet(params, max_repr_len)
    ELSE max_repr_len

\* the repr field of the result
ReprField(method, r, params) == _safe_repr(r, FALSE, MaxLenPassed(method, params))

InitReprLen ==
    /\ d_in \in [method : ReprMethods, r : Strings,
                 params : {<<>>} \cup { <<m>> : m \in 0..MaxReprLen }]
    /\ d_out = <<>>
    /\ ClientIdle
    /\ ServerIdle
    /\ RouterIdle
    /\ AppIdle
    /\ ExecIdle
    /\ LifeIdle

\* _call(method, params) for one of the three methods
CallRepr ==
    /\ d_out = <<>>
    /\ d_out' = [repr |-> ReprField(d_in.method, d_in.r, d_in.params)]
    /\ UNCHANGED <<d_in, cvars, tvars, evars, svars, rvars, avars, xvars, lvars>>

NextReprLen == CallRepr

SpecReprLen == InitReprLen /\ [][NextReprLen]_vars

\* C28: the repr field of repr(path, max_repr_len = m) is bounded by m (200
\* when the request carries none) exactly as inspect and list bound theirs.
C28_ReprHonoursMaxReprLen ==
    d_out # <<>> =>
        d_out.repr = _safe_repr(d_in.r, FALSE, ParamsGet(d_in.params, max_repr_len))

\* repr with max_repr_len = 3 returned all four characters
C28_Witness ==
    /\ d_out # <<>>
    /\ d_in.method = "repr"
    /\ d_in.params = <<3>>
    /\ Len(d_in.r) = 4
    /\ d_out.repr = d_in.r


(***************************************************************************)
(* request() of a router in direct mode and of one that is not, under      *)
(* SpecRouter.                                                             *)
(***************************************************************************)
RequestDone(t) == rt[t].pc = "done" /\ rt[t].op = "request"

\* the call went through the direct client and touched no entry
ForwardedDirect(r) ==
    /\ r.phase = "direct"
    /\ r.cl = _direct_client
    /\ objs[r.cl].port = DirectPort
    /\ r.outcome.kind \in {"result", "ConnectionError"}
    /\ r.answered = {}
    /\ r.removed = {}
    /\ r.failports = {}
    /\ r.running = <<>>

\* the call failed with `app_id is required`, reported the entries that
\* answered its pings and forwarded nothing
FailedRequired(r) ==
    /\ r.outcome.kind = "error"
    /\ r.why = "required"
    /\ r.phase = "running"
    /\ Listed(r.outcome.list) \subseteq r.answered
    /\ r.target = NoEntry

\* C29: a router in direct mode forwards every request() through its direct
\* client to the static endpoint, and probes and prunes no entry; a router
\* not in direct mode that is given no name fails with a resolution error
\* that reports the running set, and forwards nothing.
C29_DirectMode ==
    \A t \in Threads :
        RequestDone(t) =>
            /\ _direct_client # 0 => ForwardedDirect(rt[t])
            /\ _direct_client = 0 /\ rt[t].app_id = "" => FailedRequired(rt[t])

\* a request that names app a, made through a router in direct mode, was
\* resolved in the registry: the entry of a was probed and removed and the
\* call failed with a resolution error, while the server of direct mode
\* listens
C29_Witness ==
    /\ RequestDone("t1")
    /\ _direct_client # 0
    /\ rt["t1"].app_id = "a"
    /\ DirectPort \in live
    /\ rt["t1"].removed = {Entry("a", 2, 2)}
    /\ rt["t1"].outcome.kind = "error"

\* the part of C29 that holds: in direct mode a request that names no app
\* goes through the direct client, and without direct mode a request that
\* names no app fails as C29 says
DirectWithoutName ==
    \A t \in Threads :
        RequestDone(t) /\ rt[t].app_id = "" =>
            IF _direct_client # 0 THEN ForwardedDirect(rt[t]) ELSE FailedRequired(rt[t])

\* a request without a name was forwarded in direct mode
DirectForwarded ==
    /\ RequestDone("t1")
    /\ _direct_client # 0
    /\ rt["t1"].app_id = ""
    /\ rt["t1"].outcome.kind = "result"


(***************************************************************************)
(* I/O failures of the Bridge Client, under SpecClient.                    *)
(***************************************************************************)
\* a step in which a connect, a send or a receive of thread t failed
IOFailure(t) ==
    \/ ioerr'[t] > ioerr[t]
    \/ outcome[t] = NoOutcome /\ outcome'[t].kind = "ConnectionRefused"

\* C30: on any I/O failure (a failed connect, send or receive, the first
\* failure of a request that is then retried included) the client is
\* disconnected and has recorded the time of the failure.
C30_FailureRecorded ==
    [][\A t \in Threads : IOFailure(t) => _sock' = "None" /\ _last_fail' = now]_vars

\* the first exchange of a request failed and the retry is about to start:
\* the client is disconnected and no failure time is recorded
C30_Witness ==
    \E t \in Threads :
        /\ pc[t] = "reconnect"
        /\ ioerr[t] = 1
        /\ _sock = "None"
        /\ _last_fail = 0

\* every I/O failure disconnects the client, and every failure but the first
\* one of a retried request records its time
FailureRecordedUnlessRetried ==
    [][\A t \in Threads :
            IOFailure(t) =>
                /\ _sock' = "None"
                /\ pc'[t] # "reconnect" => _last_fail' = now
                /\ pc'[t] = "reconnect" => _last_fail' = _last_fail]_vars


(***************************************************************************)
(* Pruning and the cooldown of the per-endpoint client, under SpecRouter.  *)
(***************************************************************************)
\* C31: the router removes an entry only when a probe sent to its endpoint
\* went unanswered: the entry of a server that listens and would answer
\* ping at the time of the check is never removed, whatever cooldown the
\* client of its endpoint is in.
C31_PruneOnlyDead ==
    [][\A e \in registry : e \notin registry' => e.port \notin live]_vars

\* a request for app a found the client of port 1 in its cooldown, sent
\* nothing, and removed the entry of a, whose server listens on port 1
C31_Witness ==
    /\ rt["t1"].op = "request"
    /\ rt["t1"].app_id = "a"
    /\ rt["t1"].fast
    /\ rt["t1"].failports = {}
    /\ Entry("a", 1, 3) \in rt["t1"].removed
    /\ Entry("a", 1, 3) \notin registry
    /\ 1 \in live

\* what holds: an entry is removed only by a probe that failed, either
\* because a ping sent to its endpoint went unanswered or because the
\* client of its endpoint refused to connect inside its cooldown
PruneOnlyFailedOrCooling ==
    [][\A e \in registry : e \notin registry' =>
            \E t \in Threads :
                /\ rt[t].pc = "ping"
                /\ Head(rt[t].todo) = e
                /\ \/ e.port \notin live
                   \/ /\ ~objs[rt[t].cl].sock
                      /\ InCooldown(objs[rt[t].cl].last_fail, now)]_vars


(***************************************************************************)
(* Whose response a request() returns, under SpecClient.                   *)
(***************************************************************************)
\* request() of thread t is about to return a result or to raise the
\* server's error, decoded from a response line
Answered(t) == pc[t] = "ret" /\ outcome[t].kind \in {"result", "ServerError"}

\* C32: what a request() returns is decoded from the response line the
\* server produced for that call's own message (same id), whatever earlier
\* requests ended with; bytes an earlier request or connection left in the
\* receive buffer are never returned to a later request.
C32_OwnResponse ==
    \A t \in Threads : Answered(t) => outcome[t].id = msg[t].id

\* a request returns the response to an earlier one: the line of a response
\* that went over the cap was left in the buffer with its terminator
C32_Witness ==
    \E t \in Threads :
        /\ Answered(t)
        /\ outcome[t].kind = "result"
        /\ msg[t].method = "ping"
        /\ outcome[t].id # 0
        /\ outcome[t].id < msg[t].id

\* every connect starts from an empty buffer, so nothing is carried over
\* from an earlier connection
FreshBufferOnConnect ==
    [][_sock = "None" /\ _sock' = "open" => _buf' = <<>>]_vars


(***************************************************************************)
(* How often the server executes the line of one request(), under          *)
(* SpecClient.                                                             *)
(***************************************************************************)
\* C33: for each request() the server executes the requested method at
\* most once; the single retry never makes the server apply the same eval,
\* call or set twice, also when the first attempt was sent and only the
\* receive failed or timed out.
C33_AtMostOnce ==
    \A i \in 1..MaxId : executed[i] <= 1

\* the set of one request() was executed, its response was not received,
\* the line was sent again on a new connection and executed again
C33_Witness ==
    \E t \in Threads :
        /\ msg[t].method = "set"
        /\ msg[t].id # 0
        /\ try[t] = 2
        /\ nsend[t] = 2
        /\ executed[msg[t].id] = 2

\* the server executes the line of a request() once for each time the
\* client sent it, so twice at most
AtMostOncePerSend ==
    \A t \in Threads :
        msg[t].id # 0 => executed[msg[t].id] <= nsend[t]


(***************************************************************************)
(* Read-only mode and the paths of the reading methods, under              *)
(* SpecDispatch.  A sequence of requests leaves the namespace as it was    *)
(* when each request of it does.                                           *)
(***************************************************************************)
\* C34: in read-only mode no request of any method, the reading methods
\* with a path that is an arbitrary expression included, changes the
\* namespace or an object reachable from it.
C34_ReadOnlyNoChange ==
    d_out # <<>> => d_out.on.ns = d_in.ns

\* in read-only mode repr("bump()") was answered with a result, and the
\* call it made has set n
C34_Witness ==
    /\ Dispatched
    /\ Req.method = "repr"
    /\ Req.arg = "bump()"
    /\ "result" \in DOMAIN d_out.on.resp
    /\ d_in.ns["n"] = 0
    /\ d_out.on.ns["n"] = 2

\* in read-only mode a request whose path or code is a name, and every
\* request of eval, call, set, state, ping and version, leaves the namespace
\* as it was
ReadOnlyNoChangeOnNames ==
    Dispatched /\ (Req.arg # "bump()" \/ Req.method \notin {"inspect", "list", "repr", "source"})
        => d_out.on.ns = d_in.ns


(***************************************************************************)
(* The connection handlers after shutdown().  Every thread of the server   *)
(* keeps running: the accept loop and each handler take their next step    *)
(* whenever they can.  A handler inside client.recv can take a step only   *)
(* when its peer has sent, closed or reset: the socket accept() returns    *)
(* has no timeout.  Nothing is assumed about the peers.                    *)
(***************************************************************************)
HandlerThread(c) ==
    \/ EnterLoad(c)
    \/ EnterStore(c)
    \/ HandlerLoopTest(c)
    \/ HandlerRecv(c)
    \/ HandlerLine(c)
    \/ HandlerDispatch(c)
    \/ ExitLoad(c)
    \/ ExitStore(c)

SpecServerLive == SpecServerFair /\ \A c \in Conns : WF_vars(HandlerThread(c))

\* shutdown() has returned and the handler of c waits in recv with nothing
\* left to handle: whatever it handles from here on, it received afterwards
WaitsAfterShutdown(c) ==
    /\ shutdown_pc = "done"
    /\ conn[c].pc = "recv"
    /\ conn[c].buf = <<>>

\* C35: after shutdown() has returned, no request the server receives on an
\* open connection is dispatched, and every handler that was serving closes
\* its connection and terminates, even if its peer sends nothing more.
C35_QuietAfterShutdown ==
    /\ \A c \in Conns : [](WaitsAfterShutdown(c) => [](conn[c].pc # "dispatch"))
    /\ \A c \in Conns : (shutdown_pc = "done" /\ Serving(c)) ~> (conn[c].pc = "CLOSED")

\* shutdown() has returned, the handler of c1 is inside recv, and its peer
\* keeps the connection open and sends nothing
C35_Witness ==
    /\ WaitsAfterShutdown("c1")
    /\ conn["c1"].peer = "open"
    /\ conn["c1"].net = <<>>
    /\ ~_running
    /\ srv_sock = "None"

\* the request line of a peer, received after shutdown() has returned, is
\* about to be dispatched
DispatchedAfterShutdown ==
    [][\A c \in Conns : WaitsAfterShutdown(c) => conn'[c].pc # "lines"]_vars

\* what holds: a handler that comes to the test of its loop after shutdown()
\* has set the flag leaves the loop, and one whose peer closes or resets
\* the connection terminates
LeavesAtLoopTest ==
    /\ [][\A c \in Conns :
            ~_running /\ conn[c].pc = "top" /\ conn'[c].pc # "top" => conn'[c].pc = "exit"]_vars
    /\ \A c \in Conns :
            (shutdown_pc = "done" /\ Serving(c) /\ conn[c].peer # "open") ~> (conn[c].pc = "CLOSED")


(***************************************************************************)
(* The attrs of a plain object, as serialize and list return them.         *)
(***************************************************************************)

\* the nodes of the serialized tree that went through the general-object
\* branch
ObjectPlaces ==
    { p \in Tree : d_in.heap[p.node.of].kind = "object" /\ p.depth < d_in.max_depth }

\* what C36 says of the attrs and the truncated field returned for the plain
\* object obj with the cap k: at most k attributes, the first ones in the
\* order of their names, and truncated exactly when one was left out
AttrsCapped(heap, obj, attrs, truncated, k) ==
    /\ Len(attrs) <= k
    /\ Len(attrs) <= Len(heap[obj].kids)
    /\ \A i \in 1..Len(attrs) : attrs[i].name = i /\ attrs[i].type = heap[heap[obj].kids[i]].kind
    /\ truncated <=> Len(attrs) < Len(heap[obj].kids)

\* C36: for every plain object and every max_items = k >= 0, the attrs that
\* serialize returns hold at most k entries, sorted by name, all of them
\* public attributes that are not methods or functions, and truncated is
\* set exactly when such an attribute was left out because of the cap.
C36_AttrsCapped ==
    Serialized =>
        \A p \in ObjectPlaces :
            AttrsCapped(d_in.heap, p.node.of, p.node.attrs, p.node.truncated, d_in.max_items)

\* an object with one public attribute and one public method one level
\* down, serialized with max_items = 1: its attribute is there and truncated
\* is set
C36_Witness ==
    /\ Serialized
    /\ d_in.max_items = 1
    /\ d_in.max_depth = MaxDepth
    /\ d_in.heap[1].kids = <<3>>
    /\ d_in.heap[3] = [kind |-> "object", kids |-> <<4>>, methods |-> 1]
    /\ Len(d_out.tree.kids[1].attrs) = 1
    /\ d_out.tree.kids[1].truncated

\* the same for list: an object listed with max_items = 0 comes back with
\* one attribute
ListAttrsCapped ==
    d_out # <<>> /\ d_in.heap[d_in.obj].kind = "object" =>
        AttrsCapped(d_in.heap, d_in.obj, d_out.node.attrs, d_out.node.truncated, d_in.max_items)

\* what holds, of serialize and of list: from max_items = 1 on the cap is
\* kept and the attributes are the first ones in the order of their names;
\* truncated says that the object has more public names, methods included,
\* than max_items
AttrsCappedFromOne(heap, obj, attrs, truncated, k) ==
    /\ k >= 1 => Len(attrs) = Min(k, Len(heap[obj].kids))
    /\ k = 0 => Len(attrs) = 1
    /\ \A i \in 1..Len(attrs) : attrs[i].name = i /\ attrs[i].type = heap[heap[obj].kids[i]].kind
    /\ truncated <=> all_public(heap, obj) > k

SerializeAttrsFromOne ==
    Serialized =>
        \A p \in ObjectPlaces :
            AttrsCappedFromOne(d_in.heap, p.node.of, p.node.attrs, p.node.truncated, d_in.max_items)

ListAttrsFromOne ==
    d_out # <<>> /\ d_in.heap[d_in.obj].kind = "object" =>
        AttrsCappedFromOne(d_in.heap, d_in.obj, d_out.node.attrs, d_out.node.truncated, d_in.max_items)


(***************************************************************************)
(* The set of tracked identities across the calls of one serialization.    *)
(***************************************************************************)

\* C37: cycle tracking is scoped to the path.  Every call of the serializer,
\* whether it returns at the cycle test, at the depth limit, from a
\* container or from a plain object, leaves the set of tracked identities as
\* it found it, so the set a call begins with is exactly the set of its
\* ancestors; a value that is not on its own ancestor path never gets the
\* circular-reference marker, and a value that occurs several times under
\* one parent is serialized the same way, in full, each time.
C37_PathScoped ==
    Serialized =>
        \A p \in Tree :
            /\ p.node.exit = p.node.entry
            /\ p.node.entry = p.path
            /\ p.node.of \notin p.path => p.node.repr # CircularRef
            /\ \A i, j \in 1..Len(p.node.kids) :
                    p.node.kids[i].of = p.node.kids[j].of => p.node.kids[i] = p.node.kids[j]

\* a list that holds the same list twice, which in turn holds a plain
\* object: both children are serialized with their items, and the object
\* below each of them with its attributes
C37_Witness ==
    /\ Serialized
    /\ d_in.max_depth = MaxDepth
    /\ d_in.max_items = MaxItems
    /\ d_in.heap[1] = [kind |-> "list", kids |-> <<2, 2>>]
    /\ d_in.heap[2] = [kind |-> "list", kids |-> <<3>>]
    /\ d_in.heap[3].kind = "object"
    /\ Len(d_out.tree.kids) = 2
    /\ \A i \in 1..2 :
            /\ d_out.tree.kids[i].field = "items"
            /\ d_out.tree.kids[i].repr # CircularRef
            /\ d_out.tree.kids[i].kids[1].field = "attrs"
            /\ d_out.tree.kids[i].entry = {Root}
            /\ d_out.tree.kids[i].exit = {Root}
    /\ d_out.tree.exit = {}


(***************************************************************************)
(* The life cycle of the server of one DevTools object: start() and stop() *)
(* called one after the other on the owner thread, the accept loop of each *)
(* server that was started, and other processes that listen on a port or   *)
(* give it up.  The connections of a server are left out.                  *)
(***************************************************************************)
MaxCalls == 4
LifePorts == 1..2

\* _Server.__init__, before start()
NewServer(port, readonly) ==
    [_port |-> port, _readonly |-> readonly, _running |-> FALSE, _sock |-> "None",
     listening |-> FALSE, accept_pc |-> "off"]

NoCalls == [n |-> 0, op |-> "none", port |-> 0, readonly |-> FALSE, raised |-> "", was |-> 0,
            after |-> "none"]

\* a port on which some socket listens: one of another process, or one of a
\* server of this process that the system has not released yet
InUse(port) ==
    \/ port \in taken
    \/ \E s \in 1..Len(servers) : servers[s].listening /\ servers[s]._port = port

\* DevTools.running
running == dt_server # 0

InitLife ==
    /\ dt_server = 0
    /\ servers = <<>>
    /\ taken \in SUBSET LifePorts
    /\ called = NoCalls
    /\ d_in = <<>>
    /\ d_out = <<>>
    /\ ClientIdle
    /\ ServerIdle
    /\ RouterIdle
    /\ AppIdle
    /\ ExecIdle

\* DevTools.start(port=..., readonly=...).  With a server held it logs a
\* warning and returns.  Otherwise start_server builds a _Server and calls
\* its start(): _running = True, a socket, bind (which raises OSError when
\* the port is in use, and then nothing is assigned to DevTools._server),
\* listen, the accept thread.
LifeStart(port, readonly) ==
    /\ called.n < MaxCalls
    /\ called' = [n |-> called.n + 1, op |-> "start", port |-> port, readonly |-> readonly,
                  raised |-> IF ~running /\ InUse(port) THEN "OSError" ELSE "",
                  was |-> dt_server, after |-> called.op]
    /\ IF running
       THEN UNCHANGED <<dt_server, servers>>
       ELSE IF InUse(port)
       THEN /\ servers' = Append(servers, [NewServer(port, readonly) EXCEPT
                                              !._running = TRUE, !._sock = "socket"])
            /\ UNCHANGED dt_server
       ELSE /\ servers' = Append(servers, [NewServer(port, readonly) EXCEPT
                                              !._running = TRUE, !._sock = "socket",
                                              !.listening = TRUE, !.accept_pc = "loop"])
            /\ dt_server' = Len(servers) + 1
    /\ UNCHANGED <<taken, cvars, tvars, evars, svars, dvars, rvars, avars, xvars>>

\* DevTools.stop(): with a server held, _Server.shutdown (_running = False,
\* self._sock.close(), self._sock = None) and self._server = None.  The
\* system releases a socket that a thread is inside accept() on when that
\* call returns, or at once, depending on the platform.
LifeStop ==
    /\ called.n < MaxCalls
    /\ called' = [n |-> called.n + 1, op |-> "stop", port |-> 0, readonly |-> FALSE,
                  raised |-> "", was |-> dt_server, after |-> called.op]
    /\ IF running
       THEN /\ \E released \in BOOLEAN :
                /\ servers[dt_server].accept_pc # "accepting" => released
                /\ servers' = [servers EXCEPT ![dt_server]._running = FALSE,
                                              ![dt_server]._sock = "None",
                                              ![dt_server].listening = ~released]
            /\ dt_server' = 0
       ELSE UNCHANGED <<dt_server, servers>>
    /\ UNCHANGED <<taken, cvars, tvars, evars, svars, dvars, rvars, avars, xvars>>

\* _accept_loop: `while self._running`, then self._sock.accept(), which
\* fails at once when _sock is None
LifeAcceptTest(s) ==
    /\ servers[s].accept_pc = "loop"
    /\ servers' = [servers EXCEPT ![s].accept_pc =
                        IF servers[s]._running /\ servers[s]._sock # "None"
                        THEN "accepting" ELSE "exited"]
    /\ UNCHANGED <<dt_server, taken, called, cvars, tvars, evars, svars, dvars, rvars, avars, xvars>>

\* _accept_loop: accept() comes back, with TimeoutError (continue) or, on
\* the closed socket, with OSError (break); the system has released the
\* socket by then
LifeAcceptReturn(s) ==
    /\ servers[s].accept_pc = "accepting"
    /\ servers' = [servers EXCEPT ![s].accept_pc = IF servers[s]._sock = "None" THEN "exited" ELSE "loop",
                                  ![s].listening = servers[s]._sock # "None"]
    /\ UNCHANGED <<dt_server, taken, called, cvars, tvars, evars, svars, dvars, rvars, avars, xvars>>

\* another process starts to listen on a free port
OtherListen(port) ==
    /\ ~InUse(port)
    /\ taken' = taken \cup {port}
    /\ UNCHANGED <<dt_server, servers, called, cvars, tvars, evars, svars, dvars, rvars, avars, xvars>>

\* another process gives its port up
OtherClose(port) ==
    /\ port \in taken
    /\ taken' = taken \ {port}
    /\ UNCHANGED <<dt_server, servers, called, cvars, tvars, evars, svars, dvars, rvars, avars, xvars>>

NextLife ==
    \/ \E port \in LifePorts, readonly \in BOOLEAN : LifeStart(port, readonly)
    \/ LifeStop
    \/ \E s \in 1..Len(servers) : LifeAcceptTest(s)
    \/ \E s \in 1..Len(servers) : LifeAcceptReturn(s)
    \/ \E port \in LifePorts : OtherListen(port)
    \/ \E port \in LifePorts : OtherClose(port)

SpecLife == InitLife /\ [][NextLife]_vars

\* a start() call, a stop() call
StartCalled == called'.n # called.n /\ called'.op = "start"
StopCalled == called'.n # called.n /\ called'.op = "stop"

\* the server held listens with the port and the flag it was started with
HeldServes ==
    running =>
        /\ dt_server \in 1..Len(servers)
        /\ servers[dt_server]._running
        /\ servers[dt_server]._sock = "socket"
        /\ servers[dt_server].listening

\* start() or stop() with nothing to do, stop() on a running instance, and a
\* start() whose bind fails
LifeSteps ==
    /\ StartCalled /\ running => dt_server' = dt_server /\ servers' = servers
    /\ StopCalled /\ ~running => dt_server' = dt_server /\ servers' = servers
    /\ StopCalled /\ running =>
            /\ dt_server' = 0
            /\ ~servers'[dt_server]._running
            /\ servers'[dt_server]._sock = "None"
    /\ StartCalled /\ called'.raised # "" => dt_server' = 0

\* C38: running is true exactly when a server is held, and that server
\* listens; start() while running and stop() while not running change
\* nothing; stop() on a running instance shuts its server down, and the
\* start() that follows it, on a port no other process holds, creates a
\* fresh server; a start() that fails to bind leaves running false.
C38_Lifecycle ==
    /\ [](HeldServes)
    /\ [][LifeSteps]_vars
    /\ [][StartCalled /\ called.op = "stop" /\ called'.port \notin taken =>
            /\ called'.raised = ""
            /\ dt_server' = Len(servers) + 1
            /\ servers'[dt_server']._port = called'.port
            /\ servers'[dt_server']._readonly = called'.readonly]_vars

\* start() on port 1, stop(), and start() on port 1 again while the accept
\* loop of the first server is still inside accept(): OSError, no server
C38_Witness ==
    /\ called.n = 3
    /\ called.op = "start"
    /\ called.after = "stop"
    /\ called.port = 1
    /\ called.raised = "OSError"
    /\ taken = {}
    /\ ~running
    /\ Len(servers) = 2
    /\ servers[1]._port = 1
    /\ ~servers[1]._running
    /\ servers[1].listening
    /\ servers[1].accept_pc = "accepting"

\* what holds: all of C38 but its fresh server.  The start() that follows a
\* stop() creates a fresh server when no socket listens on its port any
\* more, and raises OSError and leaves running false otherwise.
LifecycleButRestart ==
    /\ [](HeldServes)
    /\ [][LifeSteps]_vars
    /\ [][StartCalled /\ called.op = "stop" =>
            IF InUse(called'.port)
            THEN called'.raised = "OSError" /\ dt_server' = 0
            ELSE /\ called'.raised = ""
                 /\ dt_server' = Len(servers) + 1
                 /\ servers'[dt_server']._port = called'.port
                 /\ servers'[dt_server']._readonly = called'.readonly]_vars


(***************************************************************************)
(* The client between two request() calls.                                 *)
(***************************************************************************)

\* no thread is inside request(): the lock is free, or the thread that holds
\* it has done all its work and is about to return or raise
BetweenRequests == _lock = "free" \/ \E t \in Threads : pc[t] = "ret"

\* C39: between request() calls a client that holds a connection has no
\* failure recorded (_last_fail = 0) and a client without a connection has
\* an empty receive buffer; so the reconnect of the retry path, which
\* follows the teardown of a held connection, is never attempted inside a
\* cooldown window.
C39_ClientInvariant ==
    /\ BetweenRequests =>
            /\ _sock # "None" => _last_fail = 0
            /\ _sock = "None" => _buf = <<>>
    /\ \A t \in Threads : pc[t] = "reconnect" => ~InCooldown(_last_fail, now) /\ _buf = <<>>

\* a request() is about to return its result after one failure and one
\* reconnect, late enough for a cooldown to have run out: the connection is
\* held and no failure is recorded
C39_Witness ==
    /\ pc["t1"] = "ret"
    /\ outcome["t1"].kind = "result"
    /\ ioerr["t1"] = 1
    /\ nreconn["t1"] = 1
    /\ _id > 1
    /\ now > _COOLDOWN
    /\ _sock = "open"
    /\ _last_fail = 0

\* a request() has ended in ConnectionError after its retry: no connection,
\* an empty buffer and the failure recorded
TornDown ==
    /\ pc["t1"] = "ret"
    /\ outcome["t1"].kind = "ConnectionError"
    /\ _sock = "None"
    /\ _buf = <<>>
    /\ _last_fail = now

====
